---- MODULE Spec2Model ----
(***************************************************************************)
(* A model of the GLSL scene renderer of Choreonoid                        *)
(* (src/src/Base/GLSLSceneRenderer.cpp): the two-generation GPU resource   *)
(* cache, the frame passes, the picking protocol, the process-wide         *)
(* registries with their locks, and the packed-normal encoder.             *)
(*                                                                         *)
(* doRender and doPick run to completion on the rendering thread, so each  *)
(* is one action; the traversal of the scene graph inside a frame is an    *)
(* interpreter over a frame state record (the fields of                    *)
(* GLSLSceneRendererImpl, the GL state the frame touches, and a log of the *)
(* lookups and draws the frame made).                                      *)
(***************************************************************************)
EXTENDS Integers, Sequences, FiniteSets, TLC

VARIABLES
    scene,      \* the scene graph and lights supplied by the scene owner
    impl,       \* the fields of GLSLSceneRendererImpl
    gl,         \* GL state: the picking target's pixel at the queried position
    heap,       \* number of VertexResource objects created so far, per scene object
    frame,      \* log of the last frame (its lookups and draws, in order), until
                \* the next call of another kind
    tracked,    \* history: resource first created for an object looked up ever since
    extensionMutex,      \* the thread holding extensionMutex, or NoThread
    renderers,           \* the process-wide set of live renderers
    extendFunctions,     \* the process-wide list of extension functions
    newExtendFunctions,  \* per renderer, the extensions not yet applied to it
    appliedFunctions,    \* history: per renderer, the functions applied to it, in order
    rendererLife,        \* per renderer: not constructed, being constructed, live, ...
    extThreads,          \* per thread: its place in initialize, the destructor or addExtension
    vertexArrayMutex,    \* the thread holding vertexArrayMutex, or NoThread
    vaThreads,           \* per rendering thread: the GL calls left in its routine
    normals,             \* NormalArrayWrapper::array, the packed normals
    normalSources,       \* history: the vectors that were appended
    decodedNormal,       \* the result of the last NormalArrayWrapper::get
    mesh,                \* the SgMesh given to the last writeMeshNormalsSub
    shading,             \* defaultSmoothShading and isNormalVisualizationEnabled
    normalArray,         \* what the last writeMeshNormalsSub appended and returned
    startup,             \* initializeGL: the programs initialized, os(), the last result
    kits,                \* LinkKinematicsKitManager: the body, the kit map, the last call
    reader               \* readlineAdaptor: do_terminate, rl_done, the place of the reader thread

rendererVars == <<scene, impl, gl, heap, frame, tracked>>

extensionVars ==
    <<extensionMutex, renderers, extendFunctions, newExtendFunctions, appliedFunctions,
      rendererLife, extThreads>>

vertexArrayVars == <<vertexArrayMutex, vaThreads>>

normalVars == <<normals, normalSources, decodedNormal>>

meshVars == <<mesh, shading, normalArray>>

startupVars == <<startup>>

kitVars == <<kits>>

readerVars == <<reader>>

\* the variables outside the renderer's frame machinery
otherVars == <<extensionVars, vertexArrayVars, normalVars, meshVars, startupVars, kitVars, readerVars>>

-----------------------------------------------------------------------------
(* Bounds of the model *)

\* resources created per scene object over a behaviour (the allocator is unbounded)
MaxGen == 2

-----------------------------------------------------------------------------
(* The scene graph.  Topology: node 1 is the scene root with children      *)
(* <<2, 5>>; node 2 is a group node with children <<3, 4>>; 3, 4, 5 are    *)
(* drawable leaves.  The kinds of the nodes and the attributes the         *)
(* renderer reads vary.                                                    *)

Root == 1
Nodes == 1..5
Leaves == {3, 4, 5}
\* the SgImage of the texture of shape n
Image(n) == n + 3
Images == {Image(n) : n \in Leaves}
\* cache keys: the SgMesh of shape n or the plot n itself, and the images
Objects == Leaves \cup Images

GroupKinds == {"SgGroup", "SgTransform", "SgSwitch", "SgUnpickableGroup",
               "SgOverlay", "SgOutlineGroup", "SgSimplifiedRenderingGroup"}
LeafKinds == {"SgShape", "SgPointSet", "SgLineSet"}

Children(n) == CASE n = 1 -> <<2, 5>>
                 [] n = 2 -> <<3, 4>>
                 [] OTHER -> <<>>

\* depth of leaf n's fragment at a pixel it covers (smaller is nearer)
FragmentDepth(n) == IF n = 3 THEN 2 ELSE 1

LightingModes == {"NO_LIGHTING", "SOLID_COLOR_LIGHTING", "MINIMUM_LIGHTING", "FULL_LIGHTING"}

\* PhongShadowLightingProgram::maxNumShadows()
maxNumShadows == 2

\* width and height of the images of textures
ImageSizes == {<<2, 2>>, <<4, 2>>, <<2, 4>>}

DefaultSize == <<2, 2>>

\* channel counts loadTextureImage has a format for, as the images of the reload
\* specification have
LoadableChannelCounts == {3, 4}

BackFaceCullingModes ==
    {"ENABLE_BACK_FACE_CULLING", "DISABLE_BACK_FACE_CULLING", "FORCE_BACK_FACE_CULLING"}

\* LightingProgram::maxNumLights()
maxNumLights == 2

\* the head light among the lights a program registers; scene lights are 0, 1, ...
HeadLight == -1

IsGroupKind(k) == k \in GroupKinds

Kind(n) == scene.kind[n]
IsTransparent(n) == n \in scene.transparent   \* material && transparency() > 0.0

\* the geometry of a leaf: complete, or a shape without mesh, or a mesh, point set
\* or line set without vertices, or a line set without lines
Geometries == {"ok", "noMesh", "noVertices", "noLines"}

\* shape->mesh() is not null
HasMesh(n) == scene.geometry[n] # "noMesh"
\* hasVertices() of the mesh, the point set or the line set
hasVertices(n) == scene.geometry[n] # "noVertices"
\* lineSet->numLines()
numLines(n) == IF scene.geometry[n] = "noLines" THEN 0 ELSE 1

\* scene.image[n] is the number of components of the image of shape n's texture,
\* or one of these: the shape has no texture with texture coordinates, or its
\* texture has no image or an empty one
NoTexture == -1
EmptyImage == 0
\* image.numComponents() of the images of the model
ChannelCounts == {3, 5}

-----------------------------------------------------------------------------
(* Resources.  A VertexResource is identified by <<object, generation>>:   *)
(* the generation counts the resources created for that object, so a       *)
(* resource created later is never the same object as an earlier one.  A   *)
(* resource map holds, for each key, the generation it maps to, or 0.      *)

NoResource == 0
\* a frame creates at most one resource for a key
Generations == 1..(MaxGen + 1)
EmptyMap == [o \in Objects |-> NoResource]

\* TextureResource::TextureResource(); textureId and samplerId tell whether the
\* resource holds a handle
NewTextureResource ==
    [isLoaded |-> FALSE, isImageUpdateNeeded |-> FALSE, textureId |-> FALSE,
     samplerId |-> FALSE, width |-> 0, height |-> 0, numComponents |-> 0]

\* VertexResource::clearHandles(): no vertex is written and no buffer is generated
NewVertexResource == [numVertices |-> 0, numBuffers |-> 0]

\* the GPU handles: a handle is named by the resource it was generated for
HandleKinds == {"vao", "vbo", "texture", "sampler"}

Handle(key, gen, kind) == [key |-> key, gen |-> gen, kind |-> kind]

\* the resources a pair of maps refers to
Referenced(maps) ==
    {<<o, maps[i][o]>> : o \in Objects, i \in 1..2} \ {<<o, NoResource>> : o \in Objects}

\* the resources destroyed by a change of the maps from `old`: the ref_ptr count of
\* a resource drops to zero when no map refers to it any more
Destroyed(st, old) == Referenced(old) \ Referenced(st.resourceMaps)

\* ~VertexResource deletes the buffers and the vertex array; ~TextureResource calls
\* clear(), which deletes the texture and the sampler if isLoaded
ReleasedHandles(st, old) ==
    {h \in st.handles :
        /\ <<h.key, h.gen>> \in Destroyed(st, old)
        /\ h.key \in Leaves \/ st.textures[h.key][h.gen].isLoaded}

\* the destructors of the resources that the maps, changed from `old`, dropped
destroyResources(st, old) ==
    [st EXCEPT !.handles = @ \ ReleasedHandles(st, old),
               !.dropped = @ \cup Destroyed(st, old),
               !.textures = [k \in Images |-> [g \in Generations |->
                                IF <<k, g>> \in Destroyed(st, old)
                                THEN NewTextureResource ELSE @[k][g]]],
               !.vertexResources = [k \in Leaves |-> [g \in Generations |->
                                       IF <<k, g>> \in Destroyed(st, old)
                                       THEN NewVertexResource ELSE @[k][g]]]]

currentResourceMap(st) == st.resourceMaps[st.currentResourceMapIndex + 1]
nextResourceMap(st) == st.resourceMaps[(1 - st.currentResourceMapIndex) + 1]

\* pickedNodePath.clear() etc.
NoPath == << >>

\* the colour of the picking target after glClear with glClearColor(0, 0, 0, 1)
Black == <<0, 0, 0>>

\* a solid colour that is not the encoding of a pick ID (a material or outline colour)
PlainColor == <<-1, -1, -1>>

-----------------------------------------------------------------------------
(* beginRendering / endRendering *)

\* sequencing: v is evaluated first, then F is applied to its value (a statement
\* `s1 = v;` followed by the statements F)
Bind(v, F(_)) == CHOOSE result \in {F(x) : x \in {v}} : TRUE

beginRendering_NoClear(st) ==
    Bind([st EXCEPT !.isCheckingUnusedResources =
                        IF st.isPicking THEN FALSE ELSE st.doUnusedResourceCheck],
         LAMBDA s1 :
             IF s1.hasValidNextResourceMap
             THEN [s1 EXCEPT !.currentResourceMapIndex = 1 - @,
                             !.hasValidNextResourceMap = FALSE]
             ELSE s1)

beginRendering_CheckWhilePicking(st) ==
    Bind([st EXCEPT !.isCheckingUnusedResources = st.doUnusedResourceCheck],
         LAMBDA s1 :
    Bind(IF s1.isResourceClearRequested
         THEN destroyResources([s1 EXCEPT !.resourceMaps = <<EmptyMap, EmptyMap>>,
                                          !.hasValidNextResourceMap = FALSE,
                                          !.isCheckingUnusedResources = FALSE,
                                          !.isResourceClearRequested = FALSE],
                               s1.resourceMaps)
         ELSE s1,
         LAMBDA s2 :
             IF s2.hasValidNextResourceMap
             THEN [s2 EXCEPT !.currentResourceMapIndex = 1 - @,
                             !.hasValidNextResourceMap = FALSE]
             ELSE s2))

beginRendering(st) ==
    Bind([st EXCEPT !.isCheckingUnusedResources =
                        IF st.isPicking THEN FALSE ELSE st.doUnusedResourceCheck],
         LAMBDA s1 :
    Bind(IF s1.isResourceClearRequested
         THEN destroyResources([s1 EXCEPT !.resourceMaps = <<EmptyMap, EmptyMap>>,
                                          !.hasValidNextResourceMap = FALSE,
                                          !.isCheckingUnusedResources = FALSE,
                                          !.isResourceClearRequested = FALSE],
                               s1.resourceMaps)
         ELSE s1,
         LAMBDA s2 :
             IF s2.hasValidNextResourceMap
             THEN [s2 EXCEPT !.currentResourceMapIndex = 1 - @,
                             !.hasValidNextResourceMap = FALSE]
             ELSE s2))

endRendering_NoSweep(st) ==
    IF st.isCheckingUnusedResources
    THEN [st EXCEPT !.hasValidNextResourceMap = TRUE]
    ELSE st

endRendering(st) ==
    IF st.isCheckingUnusedResources
    THEN destroyResources([st EXCEPT !.resourceMaps[st.currentResourceMapIndex + 1] = EmptyMap,
                                     !.hasValidNextResourceMap = TRUE],
                          st.resourceMaps)
    ELSE st

-----------------------------------------------------------------------------
(* getOrCreateVertexResource: st.ret is the resource returned *)

\* currentResourceMap->find(obj) != end()
Found(st, obj) == currentResourceMap(st)[obj] # NoResource

\* the resource found, or a new VertexResource(this, obj)
Resource(st, obj) == IF Found(st, obj) THEN currentResourceMap(st)[obj] ELSE st.heap[obj] + 1

\* the lookup in the current map, with the insertion of a new resource
LookupInCurrentMap(st, obj) ==
    [st EXCEPT !.heap[obj] = IF Found(st, obj) THEN @ ELSE Resource(st, obj),
               !.resourceMaps[st.currentResourceMapIndex + 1][obj] = Resource(st, obj),
               !.lookups = Append(@, [obj |-> obj, res |-> Resource(st, obj),
                                      created |-> ~Found(st, obj)]),
               !.ret = Resource(st, obj)]

\* the lookup of a VertexResource, whose constructor generates a vertex array
findOrCreateVertexResource(st, obj) ==
    [LookupInCurrentMap(st, obj) EXCEPT
        !.handles = IF Found(st, obj) THEN @
                    ELSE @ \cup {Handle(obj, Resource(st, obj), "vao")}]

getOrCreateVertexResource_NoCarry(st, obj) == findOrCreateVertexResource(st, obj)

getOrCreateVertexResource(st, obj) ==
    Bind(findOrCreateVertexResource(st, obj),
         LAMBDA s1 :
             \* unordered_map::insert keeps an entry that is already there
             IF s1.isCheckingUnusedResources /\ nextResourceMap(s1)[obj] = NoResource
             THEN [s1 EXCEPT !.resourceMaps[(1 - st.currentResourceMapIndex) + 1][obj] = s1.ret]
             ELSE s1)

-----------------------------------------------------------------------------
(* Picking identity: setPickColor, pushPickId, popPickId *)

\* the three colour bytes the 8-bit picking target stores for an ID
PickColor(id) == <<id % 256, (id \div 256) % 256, (id \div 65536) % 256>>

setPickColor(st, id) == [st EXCEPT !.solidColor = PickColor(id)]

\* what pushPickId and popPickId may change
PickState(st) ==
    [currentNodePath |-> st.currentNodePath,
     pickingNodePathList |-> st.pickingNodePathList,
     solidColor |-> st.solidColor]

\* history: a call of pushPickId or popPickId that took `before` to `after`;
\* `changed` tells whether the call changed anything of PickState, `depth` and
\* `pathLength` are the sizes of modelMatrixStack and currentNodePath at the call
logPickCall(before, call, node, after) ==
    [after EXCEPT !.pickCalls =
        Append(@, [call |-> call, node |-> node, picking |-> before.isPicking,
                   depth |-> before.modelMatrixStack,
                   pathLength |-> Len(before.currentNodePath),
                   id |-> IF call = "pushPickId" THEN after.ret ELSE 0,
                   changed |-> PickState(before) # PickState(after)])]

pushPickId_OutsidePicking(st, node, doSetColor) ==
    logPickCall(st, "pushPickId", node,
        Bind([st EXCEPT !.currentNodePath = Append(@, node),
                        !.pickingNodePathList = Append(@, Append(st.currentNodePath, node)),
                        !.ret = Len(st.pickingNodePathList) + 1],
             LAMBDA s1 : IF doSetColor THEN setPickColor(s1, s1.ret) ELSE s1))

\* st.ret is the ID returned
pushPickId(st, node, doSetColor) ==
    logPickCall(st, "pushPickId", node,
        IF st.isPicking
        THEN Bind([st EXCEPT !.currentNodePath = Append(@, node),
                             !.pickingNodePathList =
                                 Append(@, Append(st.currentNodePath, node)),
                             !.ret = Len(st.pickingNodePathList) + 1],
                  LAMBDA s1 : IF doSetColor THEN setPickColor(s1, s1.ret) ELSE s1)
        ELSE [st EXCEPT !.ret = 0])

popPickId(st) ==
    logPickCall(st, "popPickId", 0,
        IF st.isPicking
        THEN [st EXCEPT !.currentNodePath = SubSeq(@, 1, Len(@) - 1)]
        ELSE st)

-----------------------------------------------------------------------------
(* The program stack: pushProgram, popProgram *)

\* currentProgram with currentLightingProgram
NoProgram == [program |-> "null", lighting |-> "null", nolighting |-> "null"]

clearGLState_KeepFlags(st) == st

\* std::fill(stateFlag.begin(), stateFlag.end(), false): stateFlag is modelled by the
\* set of the flags that are set
clearGLState(st) == [st EXCEPT !.stateFlag = {}]

\* `node` is the node whose handler makes the call, or 0 for the frame itself
pushProgram(st, program, isLightingProgram, node) ==
    [st EXCEPT !.stateFlag = IF program # st.currentProgram.program
                             THEN clearGLState(st).stateFlag
                             ELSE @,
               !.currentProgram =
                   IF program # st.currentProgram.program
                   THEN [program |-> program,
                         lighting |-> IF isLightingProgram THEN program ELSE "null",
                         nolighting |-> IF isLightingProgram THEN "null" ELSE program]
                   ELSE @,
               !.programStack = Append(@, st.currentProgram),
               !.programCalls = Append(@, [call |-> "pushProgram", node |-> node])]

popProgram_KeepCurrent(st, node) ==
    [st EXCEPT !.programStack = SubSeq(@, 1, Len(@) - 1),
               !.programCalls = Append(@, [call |-> "popProgram", node |-> node])]

popProgram(st, node) ==
    [st EXCEPT !.stateFlag =
                   IF /\ st.programStack[Len(st.programStack)].program # st.currentProgram.program
                      /\ st.programStack[Len(st.programStack)].program # "null"
                   THEN clearGLState(st).stateFlag
                   ELSE @,
               !.currentProgram =
                   IF st.programStack[Len(st.programStack)].program # st.currentProgram.program
                   THEN st.programStack[Len(st.programStack)]
                   ELSE @,
               !.programStack = SubSeq(@, 1, Len(@) - 1),
               !.programCalls = Append(@, [call |-> "popProgram", node |-> node])]

-----------------------------------------------------------------------------
(* Textures: renderTexture, loadTextureImage *)

\* the TextureResource the current map has for `key`
TextureOf(st, key) == st.textures[key][currentResourceMap(st)[key]]

\* TextureResource::clear() of the resource of `key`
clear(st, key) ==
    IF TextureOf(st, key).isLoaded
    THEN [st EXCEPT !.handles = {h \in @ : ~(h.key = key /\ h.gen = currentResourceMap(st)[key]
                                             /\ h.kind \in {"texture", "sampler"})},
                    !.textures[key][currentResourceMap(st)[key]].textureId = FALSE,
                    !.textures[key][currentResourceMap(st)[key]].samplerId = FALSE,
                    !.textures[key][currentResourceMap(st)[key]].isLoaded = FALSE]
    ELSE st

\* TextureResource::isSameSizeAs(image) of the resource `resource`
isSameSizeAs(resource, size, numComponents) ==
    /\ resource.width = size[1]
    /\ resource.height = size[2]
    /\ resource.numComponents = numComponents

\* history: a load into the resource `before` of an image of `size` and
\* `numComponents`; `reused` tells glTexSubImage2D from glTexImage2D
logTextureLoad(st, key, before, size, numComponents, reused) ==
    [st EXCEPT !.textureLoads = Append(@, [key |-> key, before |-> before, size |-> size,
                                           numComponents |-> numComponents,
                                           reused |-> reused])]

\* the part of loadTextureImage after the switch: `resource` is the resource as the
\* assignment of numComponents left it
writeTextureImage(st, key, resource, size) ==
    IF resource.isLoaded /\ isSameSizeAs(resource, size, resource.numComponents)
    THEN [st EXCEPT !.textures[key][currentResourceMap(st)[key]] =
                        [resource EXCEPT !.isImageUpdateNeeded = FALSE],
                    !.ret = TRUE]
    ELSE [st EXCEPT !.textures[key][currentResourceMap(st)[key]] =
                        [resource EXCEPT !.isLoaded = TRUE, !.width = size[1],
                                         !.height = size[2],
                                         !.isImageUpdateNeeded = FALSE],
                    !.ret = TRUE]

\* st.ret is the value returned; the resource is the one the current map has for `key`
loadTextureImage(st, key, numComponents, size) ==
    IF numComponents \in 1..4
    THEN writeTextureImage(
             logTextureLoad(st, key, TextureOf(st, key), size, numComponents,
                            /\ TextureOf(st, key).isLoaded
                            /\ isSameSizeAs([TextureOf(st, key) EXCEPT
                                                 !.numComponents = numComponents],
                                            size, numComponents)),
             key, [TextureOf(st, key) EXCEPT !.numComponents = numComponents], size)
    ELSE [clear(st, key) EXCEPT !.ret = FALSE]

\* the branch of renderTexture for an image that has a resource in the current map
updateTexture(st, shape) ==
    Bind([st EXCEPT !.lookups = Append(@, [obj |-> Image(shape),
                                           res |-> currentResourceMap(st)[Image(shape)],
                                           created |-> FALSE])],
         LAMBDA s1 :
             IF TextureOf(s1, Image(shape)).isLoaded /\ TextureOf(s1, Image(shape)).isImageUpdateNeeded
             THEN loadTextureImage(s1, Image(shape), scene.image[shape],
                                   scene.imageSize[shape])
             ELSE s1)

\* the branch for an image without one: new TextureResource, glGenTextures,
\* loadTextureImage and, if that succeeds, glGenSamplers
createTexture(st, shape) ==
    Bind(LookupInCurrentMap(st, Image(shape)),
         LAMBDA s1 :
    Bind([s1 EXCEPT !.textures[Image(shape)][s1.ret] =
                        [NewTextureResource EXCEPT !.textureId = TRUE],
                    !.handles = @ \cup {Handle(Image(shape), s1.ret, "texture")}],
         LAMBDA s2 :
    Bind(loadTextureImage(s2, Image(shape), scene.image[shape], scene.imageSize[shape]),
         LAMBDA s3 :
             IF s3.ret
             THEN [s3 EXCEPT !.handles = @ \cup {Handle(Image(shape),
                                                        currentResourceMap(s3)[Image(shape)],
                                                        "sampler")},
                             !.textures[Image(shape)][currentResourceMap(s3)[Image(shape)]].samplerId = TRUE]
             ELSE s3)))

\* st.ret is the value returned
renderTexture(st, shape) ==
    IF scene.image[shape] = EmptyImage
    THEN [st EXCEPT !.ret = FALSE]
    ELSE Bind(IF Found(st, Image(shape)) THEN updateTexture(st, shape)
                                         ELSE createTexture(st, shape),
              LAMBDA s1 :
         Bind(IF s1.isCheckingUnusedResources /\ nextResourceMap(s1)[Image(shape)] = NoResource
              THEN [s1 EXCEPT !.resourceMaps[(1 - s1.currentResourceMapIndex) + 1][Image(shape)] =
                                  currentResourceMap(s1)[Image(shape)]]
              ELSE s1,
              LAMBDA s2 :
                  [s2 EXCEPT !.ret = TextureOf(s2, Image(shape)).isLoaded,
                             !.textureCalls =
                                 Append(@, [shape |-> shape,
                                            numComponents |-> scene.image[shape],
                                            ret |-> TextureOf(s2, Image(shape)).isLoaded])]))

-----------------------------------------------------------------------------
(* Drawing *)

\* glDepthFunc(GL_LESS), the default; a depth buffer value of 0 stands for the
\* cleared buffer (the far plane)
DepthTest(fragment, buffer) == buffer = 0 \/ fragment < buffer

\* the pass a draw call belongs to
Pass(st) == IF st.isRenderingShadowMap THEN "shadow" ELSE st.phase

\* the VertexResource the current map has for `obj`
VertexResourceOf(st, obj) == st.vertexResources[obj][currentResourceMap(st)[obj]]

\* history: a call on the vertex resource of `obj`, with its vertex count and its
\* buffer count then, and the number of buffers the call generated
logResourceCallWith(st, call, obj, generated) ==
    [st EXCEPT !.resourceCalls = Append(@, [call |-> call, obj |-> obj,
                                            res |-> currentResourceMap(st)[obj],
                                            numVertices |-> VertexResourceOf(st, obj).numVertices,
                                            numBuffers |-> VertexResourceOf(st, obj).numBuffers,
                                            generated |-> generated])]

logResourceCall(st, call, obj) == logResourceCallWith(st, call, obj, 0)

\* glDrawArrays: the draw is logged; in a picking pass a fragment that passes the
\* depth test (GL_LESS) writes the solid colour to the queried pixel
drawVertexResource(st, node) ==
    Bind([logResourceCall(st, "draw", node) EXCEPT
                   !.draws = Append(@, [node |-> node,
                                         pass |-> Pass(st),
                                         picking |-> st.isPicking,
                                         kind |-> Kind(node),
                                         transparent |-> IsTransparent(node),
                                         color |-> st.solidColor,
                                         blend |-> st.blend,
                                         program |-> st.currentProgram.program,
                                         texture |-> st.textureEnabled,
                                         phase |-> st.phase,
                                         cullFace |-> st.cullFace,
                                         mode |-> st.backFaceCullingMode,
                                         shadowMap |-> st.isRenderingShadowMap])],
         LAMBDA s1 :
             IF /\ st.isPicking
                /\ node \in st.covering
                /\ DepthTest(FragmentDepth(node), st.fbDepth)
             THEN [s1 EXCEPT !.fbColor = st.solidColor, !.fbDepth = FragmentDepth(node)]
             ELSE s1)

\* VertexResource::deleteBuffers()
deleteBuffers(st, obj) ==
    IF VertexResourceOf(st, obj).numBuffers > 0
    THEN [logResourceCall(st, "deleteBuffers", obj) EXCEPT
             !.handles = @ \ {Handle(obj, currentResourceMap(st)[obj], "vbo")},
             !.vertexResources[obj][currentResourceMap(st)[obj]].numBuffers = 0]
    ELSE st

isValid_KeepBuffers(st, obj) ==
    [logResourceCall(st, "isValid", obj) EXCEPT
        !.ret = VertexResourceOf(st, obj).numVertices > 0]

isValid_AnyCount(st, obj) == [logResourceCall(st, "isValid", obj) EXCEPT !.ret = TRUE]

\* VertexResource::isValid(): an invalid resource gives its buffers up
isValid(st, obj) ==
    IF VertexResourceOf(st, obj).numVertices > 0
    THEN [logResourceCall(st, "isValid", obj) EXCEPT !.ret = TRUE]
    ELSE [deleteBuffers(logResourceCall(st, "isValid", obj), obj) EXCEPT !.ret = FALSE]

\* the vertices the encoders write for `obj`: a triangle, a line or a point
NumVertices(obj) ==
    CASE Kind(obj) = "SgShape" -> 3
      [] Kind(obj) = "SgLineSet" -> 2
      [] OTHER -> 1

\* static const int MAX_NUM_BUFFERS: the size of the array vbos
MAX_NUM_BUFFERS == 4

\* mesh->hasColors() / plot->hasColors(): of the leaves of the modelled scenes, the
\* nodes 3 and 5 have a colour array
hasColors(obj) == obj \in {3, 5}

\* the calls of newBuffer in writeMeshVertices: for the positions, for the normals,
\* for the texture coordinates if a texture is given, for the colours if the mesh
\* has them
numMeshBuffers(shape, withTexture) ==
    2 + (IF withTexture THEN 1 ELSE 0) + (IF hasColors(shape) THEN 1 ELSE 0)

\* the calls of newBuffer in renderPlot: for the vertices, and for the colours
numPlotBuffers(plot) == 1 + (IF hasColors(plot) THEN 1 ELSE 0)

\* writeMeshVertices and the encoder of renderPlot: numVertices is set and
\* `generated` buffers are generated with newBuffer, each of which increments
\* numBuffers; the buffers of a resource are modelled by one handle
writeVertices(st, obj, generated) ==
    logResourceCallWith(
        [st EXCEPT !.handles = @ \cup {Handle(obj, currentResourceMap(st)[obj], "vbo")},
                   !.vertexResources[obj][currentResourceMap(st)[obj]] =
                       [numVertices |-> NumVertices(obj),
                        numBuffers |-> @.numBuffers + generated]],
        "write", obj, generated)

\* if(!resource->isValid()): the buffers of the resource are generated and written
writeVerticesIfInvalid(st, obj, generated) ==
    Bind(isValid(st, obj),
         LAMBDA s1 : IF ~s1.ret THEN writeVertices(s1, obj, generated) ELSE s1)

\* the part of renderShapeMain before the lookup of the vertex resource: the pick
\* colour, or the material and, under the phong program, the texture
\* the local isTextureValid of renderShapeMain when the state is `st`, the state
\* prepareShape left: false unless renderTexture was called and returned true
isTextureValid(st) ==
    /\ ~st.isPicking
    /\ st.currentProgram.lighting = "phongShadowLightingProgram"
    /\ st.ret

prepareShape(st, shape, pickId) ==
    IF st.isPicking
    THEN setPickColor(st, pickId)
    ELSE IF st.currentProgram.lighting = "phongShadowLightingProgram"
         THEN Bind(IF scene.image[shape] # NoTexture
                   THEN renderTexture(st, shape)
                   ELSE [st EXCEPT !.ret = FALSE],
                   LAMBDA s1 : [s1 EXCEPT !.textureEnabled = s1.ret])
         ELSE st

renderShapeMain_AbortOnTextureFailure(st, shape, pickId) ==
    Bind(prepareShape(st, shape, pickId),
         LAMBDA s1 :
             IF scene.image[shape] > 4 /\ ~st.isPicking
             THEN s1
             ELSE Bind(getOrCreateVertexResource(s1, shape),
                       LAMBDA s2 :
                  Bind(writeVerticesIfInvalid(s2, shape,
                                              numMeshBuffers(shape, isTextureValid(s1))),
                       LAMBDA s3 : drawVertexResource(s3, shape))))

\* history: a glEnable(GL_CULL_FACE) or glDisable(GL_CULL_FACE) call, with the state
\* flag and the cached isCullFaceEnabled it was made under
logCullFaceCall(st, shape, enable) ==
    [st EXCEPT !.cullFaceCalls = Append(@, [node |-> shape, enable |-> enable,
                                            flag |-> "CULL_FACE" \in st.stateFlag,
                                            cached |-> st.isCullFaceEnabled,
                                            mode |-> st.backFaceCullingMode])]

\* glEnable(GL_CULL_FACE) or glDisable(GL_CULL_FACE), and isCullFaceEnabled
glCullFace(st, shape, enable) ==
    [logCullFaceCall(st, shape, enable) EXCEPT !.cullFace = enable,
                                               !.isCullFaceEnabled = enable]

\* the state of GL_CULL_FACE the culling mode asks for, for a mesh of the solidity
\* `isSolid`
enableCullFace(mode, isSolid) ==
    CASE mode = "ENABLE_BACK_FACE_CULLING" -> isSolid
      [] mode = "DISABLE_BACK_FACE_CULLING" -> FALSE
      [] OTHER -> TRUE

\* the part of renderShapeMain that sets GL_CULL_FACE, outside the shadow-map passes
setCullFace(st, shape) ==
    IF st.isRenderingShadowMap
    THEN st
    ELSE IF "CULL_FACE" \notin st.stateFlag
         THEN [glCullFace(st, shape, enableCullFace(st.backFaceCullingMode,
                                                    shape \in scene.solid))
                  EXCEPT !.stateFlag = @ \cup {"CULL_FACE"}]
         ELSE IF /\ st.backFaceCullingMode = "ENABLE_BACK_FACE_CULLING"
                 /\ st.isCullFaceEnabled # (shape \in scene.solid)
              THEN glCullFace(st, shape, shape \in scene.solid)
              ELSE st

renderShapeMain(st, shape, pickId) ==
    Bind(prepareShape(st, shape, pickId),
         LAMBDA s1 :
    Bind(getOrCreateVertexResource(s1, shape),
         LAMBDA s2 :
    Bind(writeVerticesIfInvalid(s2, shape, numMeshBuffers(shape, isTextureValid(s1))),
         LAMBDA s3 : drawVertexResource(setCullFace(s3, shape), shape))))

\* history: a draw of `shape` was deferred to the transparent pass
defer(st, shape, pickId) ==
    [st EXCEPT !.transparentRenderingFunctions = Append(@, [shape |-> shape, pickId |-> pickId]),
               !.deferrals = Append(@, shape)]

renderShape_Immediate(st, shape) ==
    IF HasMesh(shape) /\ hasVertices(shape)
    THEN Bind(pushPickId(st, shape, FALSE),
              LAMBDA s1 :
         Bind(renderShapeMain(s1, shape, s1.ret),
              LAMBDA s2 : popPickId(s2)))
    ELSE st

renderShape_Unguarded(st, shape) ==
    IF IsTransparent(shape)
    THEN IF ~st.isRenderingShadowMap
         THEN Bind(pushPickId(st, shape, FALSE),
                   LAMBDA s1 : popPickId(defer(s1, shape, s1.ret)))
         ELSE st
    ELSE Bind(pushPickId(st, shape, FALSE),
              LAMBDA s1 :
         Bind(renderShapeMain(s1, shape, s1.ret),
              LAMBDA s2 : popPickId(s2)))

renderShape(st, shape) ==
    IF HasMesh(shape) /\ hasVertices(shape)
    THEN IF IsTransparent(shape)
         THEN IF ~st.isRenderingShadowMap
              THEN Bind(pushPickId(st, shape, FALSE),
                        LAMBDA s1 : popPickId(defer(s1, shape, s1.ret)))
              ELSE st
         ELSE Bind(pushPickId(st, shape, FALSE),
                   LAMBDA s1 :
              Bind(renderShapeMain(s1, shape, s1.ret),
                   LAMBDA s2 : popPickId(s2)))
    ELSE st

renderPlot(st, plot) ==
    Bind(pushPickId(st, plot, TRUE),
         LAMBDA s1 :
    Bind(getOrCreateVertexResource(s1, plot),
         LAMBDA s2 :
    Bind(writeVerticesIfInvalid(s2, plot, numPlotBuffers(plot)),
         LAMBDA s3 :
    Bind(drawVertexResource(s3, plot),
         LAMBDA s4 : popPickId(s4)))))

renderPointSet(st, pointSet) ==
    IF ~hasVertices(pointSet)
    THEN st
    ELSE Bind(pushProgram(st, "solidColorProgram", FALSE, pointSet),
              LAMBDA s1 :
         Bind(renderPlot(s1, pointSet),
              LAMBDA s2 : popProgram(s2, pointSet)))

renderLineSet(st, lineSet) ==
    IF st.isRenderingShadowMap
    THEN st
    ELSE IF ~hasVertices(lineSet) \/ numLines(lineSet) <= 0
         THEN st
         ELSE Bind(pushProgram(st, "solidColorProgram", FALSE, lineSet),
                   LAMBDA s1 :
              Bind(renderPlot(s1, lineSet),
                   LAMBDA s2 : popProgram(s2, lineSet)))

-----------------------------------------------------------------------------
(* Group nodes *)

RECURSIVE dispatch(_, _)
RECURSIVE renderChildNodesFrom(_, _, _)

renderChildNodesFrom(st, group, i) ==
    IF i > Len(Children(group))
    THEN st
    ELSE Bind(dispatch(st, Children(group)[i]),
              LAMBDA s1 : renderChildNodesFrom(s1, group, i + 1))

renderChildNodes(st, group) == renderChildNodesFrom(st, group, 1)

renderGroup(st, group) ==
    Bind(pushPickId(st, group, TRUE),
         LAMBDA s1 :
    Bind(renderChildNodes(s1, group),
         LAMBDA s2 : popPickId(s2)))

renderSwitch(st, node) ==
    IF scene.switchOn THEN renderGroup(st, node) ELSE st

renderUnpickableGroup_AlsoWhilePicking(st, group) == renderGroup(st, group)

renderUnpickableGroup(st, group) ==
    IF ~st.isPicking THEN renderGroup(st, group) ELSE st

renderTransform_KeepMatrix(st, transform) ==
    Bind(pushPickId([st EXCEPT !.modelMatrixStack = @ + 1], transform, TRUE),
         LAMBDA s1 :
    Bind(renderChildNodes(s1, transform),
         LAMBDA s2 : popPickId(s2)))

renderTransform(st, transform) ==
    Bind(pushPickId([st EXCEPT !.modelMatrixStack = @ + 1], transform, TRUE),
         LAMBDA s1 :
    Bind(renderChildNodes(s1, transform),
         LAMBDA s2 : [popPickId(s2) EXCEPT !.modelMatrixStack = @ - 1]))

renderOverlay(st, overlay) ==
    IF ~st.isActuallyRendering
    THEN st
    ELSE Bind(pushProgram(st, "solidColorProgram", FALSE, overlay),
              LAMBDA s1 :
         Bind(renderGroup([s1 EXCEPT !.modelMatrixStack = @ + 1], overlay),
              LAMBDA s2 : popProgram([s2 EXCEPT !.modelMatrixStack = @ - 1], overlay)))

renderOutlineGroup(st, outline) ==
    IF st.isPicking
    THEN renderGroup(st, outline)
    ELSE [st EXCEPT !.postRenderingFunctions = Append(@, outline)]

\* the children are drawn twice: into the stencil, then as lines in the outline colour
renderOutlineGroupMain(st, outline) ==
    Bind(renderChildNodes([st EXCEPT !.modelMatrixStack = @ + 1], outline),
         LAMBDA s2 :
    Bind(pushProgram(s2, "solidColorProgram", FALSE, outline),
         LAMBDA s3 :
    Bind(renderChildNodes([s3 EXCEPT !.solidColor = PlainColor], outline),
         LAMBDA s4 : [popProgram(s4, outline) EXCEPT !.modelMatrixStack = @ - 1])))

\* program->setLight(lightIndex, light, ...): an accepted light takes the slot
\* lightIndex of the program and the index advances
setLight(r, light, accepted) ==
    IF accepted
    THEN [lightIndex |-> r.lightIndex + 1,
          slots |-> {x \in r.slots : x[1] # r.lightIndex} \cup {<<r.lightIndex, light>>}]
    ELSE r

\* the loop of renderLights over the scene lights, from the light i on
RECURSIVE sceneLights(_, _)
sceneLights(r, i) ==
    IF i >= Len(scene.lights) \/ r.lightIndex = maxNumLights
    THEN r
    ELSE sceneLights(IF scene.lights[i + 1].on
                     THEN setLight(r, i, scene.lights[i + 1].accepted)
                     ELSE r,
                     i + 1)

withHeadLight_Always(r) == setLight(r, HeadLight, TRUE)

\* the head light after the scene lights
withHeadLight(r) ==
    IF r.lightIndex < maxNumLights /\ scene.headLight.on
    THEN setLight(r, HeadLight, scene.headLight.accepted)
    ELSE r

\* history: the slots that were filled and the value passed to setNumLights
logLights(st, program, r) ==
    [st EXCEPT !.lightCalls = Append(@, [program |-> program, slots |-> r.slots,
                                         numLights |-> r.lightIndex])]

renderLights(st, program) ==
    logLights(st, program, withHeadLight(sceneLights([lightIndex |-> 0, slots |-> {}], 0)))

renderSimplifiedRenderingGroup(st, group) ==
    IF st.isRenderingShadowMap
    THEN st
    ELSE Bind(IF ~st.isPicking
              THEN Bind(pushProgram(st, "minimumLightingProgram", TRUE, group),
                        LAMBDA s0 :
                            IF ~s0.isMinimumLightingProgramActivatedInThisFrame
                            THEN [renderLights(s0, "minimumLightingProgram") EXCEPT
                                     !.isMinimumLightingProgramActivatedInThisFrame = TRUE]
                            ELSE s0)
              ELSE st,
              LAMBDA s1 :
         Bind(renderChildNodes(s1, group),
              LAMBDA s2 : IF ~s2.isPicking THEN popProgram(s2, group) ELSE s2))

\* renderingFunctions.dispatch: one handler per node kind
dispatch(st, node) ==
    CASE Kind(node) = "SgGroup" -> renderGroup(st, node)
      [] Kind(node) = "SgTransform" -> renderTransform(st, node)
      [] Kind(node) = "SgSwitch" -> renderSwitch(st, node)
      [] Kind(node) = "SgUnpickableGroup" -> renderUnpickableGroup(st, node)
      [] Kind(node) = "SgShape" -> renderShape(st, node)
      [] Kind(node) = "SgPointSet" -> renderPointSet(st, node)
      [] Kind(node) = "SgLineSet" -> renderLineSet(st, node)
      [] Kind(node) = "SgOverlay" -> renderOverlay(st, node)
      [] Kind(node) = "SgOutlineGroup" -> renderOutlineGroup(st, node)
      [] Kind(node) = "SgSimplifiedRenderingGroup" -> renderSimplifiedRenderingGroup(st, node)

-----------------------------------------------------------------------------
(* The passes of a frame *)

\* history: the frame enters the phase `name`
logPhase(st, name) ==
    [st EXCEPT !.phases = Append(@, [name |-> name, shadowMap |-> st.isRenderingShadowMap,
                                     numShadows |-> st.numShadows])]

\* modelMatrixStack.clear(); push_back(Identity): the stack is modelled by its depth
renderCamera(st) == [st EXCEPT !.modelMatrixStack = 1]

\* currentProgram->initializeFrameRendering() clears the bound target; the modelled
\* pixel belongs to the picking target, which is bound during doPick only
renderSceneGraphNodes(st) ==
    Bind(clearGLState(IF st.isPicking THEN [st EXCEPT !.fbColor = Black, !.fbDepth = 0]
                      ELSE st),
         LAMBDA s1 :
    Bind(IF s1.currentProgram.lighting # "null"
         THEN renderLights(s1, s1.currentProgram.lighting)
         ELSE s1,
         LAMBDA s2 : dispatch(s2, Root)))

RECURSIVE runTransparentFunctions_Reversed(_, _, _)
runTransparentFunctions_Reversed(st, i, n) ==
    IF i > n
    THEN st
    ELSE Bind(renderShapeMain(st, st.transparentRenderingFunctions[n - i + 1].shape,
                              st.transparentRenderingFunctions[n - i + 1].pickId),
              LAMBDA s1 : runTransparentFunctions_Reversed(s1, i + 1, n))

RECURSIVE runTransparentFunctions(_, _, _)
runTransparentFunctions(st, i, n) ==
    IF i > n
    THEN st
    ELSE Bind(renderShapeMain(st, st.transparentRenderingFunctions[i].shape,
                              st.transparentRenderingFunctions[i].pickId),
              LAMBDA s1 : runTransparentFunctions(s1, i + 1, n))

renderTransparentObjects(st) ==
    Bind(runTransparentFunctions(
             IF ~st.isPicking THEN [st EXCEPT !.blend = TRUE, !.depthMask = FALSE] ELSE st,
             1, Len(st.transparentRenderingFunctions)),
         LAMBDA s2 :
             [s2 EXCEPT !.blend = IF ~st.isPicking THEN FALSE ELSE @,
                        !.depthMask = IF ~st.isPicking THEN TRUE ELSE @,
                        !.transparentRenderingFunctions = << >>])

\* the range-for over postRenderingFunctions visits the functions that were in the
\* vector when the loop began; one appended meanwhile is dropped by the clear()
RECURSIVE runPostRenderingFunctions(_, _, _)
runPostRenderingFunctions(st, i, n) ==
    IF i > n
    THEN st
    ELSE Bind(renderOutlineGroupMain(st, st.postRenderingFunctions[i]),
              LAMBDA s1 : runPostRenderingFunctions(s1, i + 1, n))

renderScene(st) ==
    IF scene.camera
    THEN Bind(renderSceneGraphNodes([renderCamera(logPhase(st, "main")) EXCEPT
                                        !.postRenderingFunctions = << >>,
                                        !.transparentRenderingFunctions = << >>,
                                        !.phase = "main"]),
              LAMBDA s2 :
         Bind(runPostRenderingFunctions([logPhase(s2, "post") EXCEPT !.phase = "post"], 1,
                                        Len(s2.postRenderingFunctions)),
              LAMBDA s3 :
         Bind([s3 EXCEPT !.postRenderingFunctions = << >>, !.phase = "transparent"],
              LAMBDA s4 :
         Bind(IF s4.transparentRenderingFunctions # << >>
              THEN renderTransparentObjects([logPhase(s4, "transparent") EXCEPT
                                                !.transparentPasses = @ + 1])
              ELSE s4,
              LAMBDA s5 : [s5 EXCEPT !.phase = "none"]))))
    ELSE st

\* getLightInfo gives no light for an index outside the light list
renderShadowMap_OffLightsCast(st, lightIndex) ==
    IF /\ lightIndex \in 0..(Len(scene.lights) - 1)
       /\ scene.lights[lightIndex + 1].shadowCamera
    THEN Bind(renderSceneGraphNodes(renderCamera(logPhase(st, "shadowMap"))),
              LAMBDA s1 : [s1 EXCEPT !.ret = TRUE])
    ELSE [st EXCEPT !.ret = FALSE]

renderShadowMap(st, lightIndex) ==
    IF /\ lightIndex \in 0..(Len(scene.lights) - 1)
       /\ scene.lights[lightIndex + 1].on
       /\ scene.lights[lightIndex + 1].shadowCamera
    THEN Bind(renderSceneGraphNodes(renderCamera(logPhase(st, "shadowMap"))),
              LAMBDA s1 : [s1 EXCEPT !.ret = TRUE])
    ELSE [st EXCEPT !.ret = FALSE]

\* history: the light `light` was tried for the map slot `slot`
logShadowTry(st, light, slot) ==
    [st EXCEPT !.shadowTries = Append(@, [light |-> light, slot |-> slot,
                                          generated |-> st.ret])]

\* the least light index of shadowLightIndices from `from` on
NextShadowLight(st, from) ==
    CHOOSE x \in st.shadowLightIndices :
        x >= from /\ \A y \in st.shadowLightIndices : y >= from => x <= y

\* the loop over shadowLightIndices in ascending order, from the light index `from`
RECURSIVE shadowMapPasses(_, _)
shadowMapPasses(st, from) ==
    IF {i \in st.shadowLightIndices : i >= from} = {} \/ st.shadowMapIndex >= maxNumShadows
    THEN st
    ELSE Bind(renderShadowMap(st, NextShadowLight(st, from)),
              LAMBDA s1 :
                  shadowMapPasses(
                      IF s1.ret
                      THEN [logShadowTry(s1, NextShadowLight(st, from), st.shadowMapIndex)
                               EXCEPT !.shadowMapIndex = @ + 1]
                      ELSE logShadowTry(s1, NextShadowLight(st, from), st.shadowMapIndex),
                      NextShadowLight(st, from) + 1))

renderShadowMaps_FlagKept(st) ==
    IF st.lightingMode = "FULL_LIGHTING" /\ st.shadowLightIndices # {}
    THEN Bind(pushProgram(st, "shadowMapProgram", FALSE, 0),
              LAMBDA s1 :
         Bind(shadowMapPasses([s1 EXCEPT !.isRenderingShadowMap = TRUE,
                                         !.isActuallyRendering = FALSE,
                                         !.shadowMapIndex = 0], 0),
              LAMBDA b : [popProgram(b, 0) EXCEPT !.numShadows = b.shadowMapIndex]))
    ELSE IF st.lightingMode = "FULL_LIGHTING"
         THEN [st EXCEPT !.numShadows = 0]
         ELSE st

\* the shadow maps of a frame, under FULL_LIGHTING
renderShadowMaps(st) ==
    IF st.lightingMode = "FULL_LIGHTING" /\ st.shadowLightIndices # {}
    THEN Bind(pushProgram(st, "shadowMapProgram", FALSE, 0),
              LAMBDA s1 :
         Bind(shadowMapPasses([s1 EXCEPT !.isRenderingShadowMap = TRUE,
                                         !.isActuallyRendering = FALSE,
                                         !.shadowMapIndex = 0], 0),
              LAMBDA b : [popProgram(b, 0) EXCEPT !.numShadows = b.shadowMapIndex,
                                                  !.isRenderingShadowMap = FALSE]))
    ELSE IF st.lightingMode = "FULL_LIGHTING"
         THEN [st EXCEPT !.numShadows = 0]
         ELSE st

\* the program doRender pushes for the main pass
MainProgram(st) ==
    CASE st.lightingMode = "NO_LIGHTING" -> <<"nolightingProgram", FALSE>>
      [] st.lightingMode = "SOLID_COLOR_LIGHTING" -> <<"solidColorProgram", FALSE>>
      [] st.lightingMode = "MINIMUM_LIGHTING" -> <<"minimumLightingProgram", TRUE>>
      [] st.lightingMode = "FULL_LIGHTING" -> <<"phongShadowLightingProgram", TRUE>>

doRender_SceneBeforeShadowMaps(st) ==
    Bind(beginRendering(logPhase(st, "beginRendering")),
         LAMBDA s1 :
    Bind(pushProgram(s1, MainProgram(s1)[1], MainProgram(s1)[2], 0),
         LAMBDA s2 :
    Bind(renderScene([s2 EXCEPT !.isActuallyRendering = TRUE]),
         LAMBDA s3 :
    Bind(popProgram(s3, 0),
         LAMBDA s4 :
    Bind(renderShadowMaps(s4),
         LAMBDA s5 : endRendering([logPhase(s5, "endRendering") EXCEPT !.ended = TRUE]))))))

doRender(st) ==
    Bind(beginRendering(logPhase(st, "beginRendering")),
         LAMBDA s0 :
    Bind([s0 EXCEPT !.isMinimumLightingProgramActivatedInThisFrame =
                        (s0.lightingMode = "NO_LIGHTING")],
         LAMBDA s1 :
    Bind(renderShadowMaps(s1),
         LAMBDA s2 :
    Bind(pushProgram(s2, MainProgram(s2)[1], MainProgram(s2)[2], 0),
         LAMBDA s3 :
    Bind(renderScene([s3 EXCEPT !.isActuallyRendering = TRUE]),
         LAMBDA s4 :
    Bind(popProgram(s4, 0),
         LAMBDA s5 : endRendering([logPhase(s5, "endRendering") EXCEPT !.ended = TRUE])))))))

\* unsigned int id = <float expression>: a value of -1 is outside the range of the
\* target type, so the conversion is undefined; builds give 2^32 - 1 or 0.  The
\* 32-bit result is kept as two 16-bit halves.
NegativeToUnsigned == {[hi |-> 65535, lo |-> 65535], [hi |-> 0, lo |-> 0]}

ToUnsigned(v, neg) ==
    IF v >= 0 THEN [hi |-> v \div 65536, lo |-> v % 65536] ELSE neg

\* color[0] * 255 + ((int)(color[1] * 255) << 8) + ((int)(color[2] * 255) << 16) - 1
DecodedId(color, neg) ==
    ToUnsigned(color[1] + color[2] * 256 + color[3] * 65536 - 1, neg)

\* 0 < id && id < pickingNodePathList.size()
IdInRange(st, id) ==
    /\ (id.hi > 0 \/ id.lo > 0)
    /\ id.hi = 0 /\ id.lo < Len(st.pickingNodePathList)

\* the part of doPick after endRendering: the pixel is read back and resolved
resolvePick(st, id, unprojectOk) ==
    Bind([st EXCEPT !.pickedNodePath =
             IF IdInRange(st, id) /\ unprojectOk
             THEN st.pickingNodePathList[id.lo + 1]
             ELSE NoPath],
         LAMBDA s4 : [s4 EXCEPT !.ret = (s4.pickedNodePath # NoPath)])

renderPickingPass_KeepPaths(st) ==
    Bind(beginRendering([logPhase(st, "beginRendering") EXCEPT
                            !.isPicking = TRUE, !.isActuallyRendering = FALSE]),
         LAMBDA s1 :
    Bind(pushProgram(s1, "solidColorProgram", FALSE, 0),
         LAMBDA s2 :
    Bind(renderScene(s2),
         LAMBDA s3 :
    Bind(popProgram(s3, 0),
         LAMBDA s4 : endRendering([logPhase(s4, "endRendering") EXCEPT
                                      !.isPicking = FALSE, !.ended = TRUE])))))

\* the part of doPick up to endRendering: the picking pass
renderPickingPass(st) ==
    Bind(beginRendering([logPhase(st, "beginRendering") EXCEPT
                            !.isPicking = TRUE, !.isActuallyRendering = FALSE]),
         LAMBDA s1 :
    Bind(pushProgram(s1, "solidColorProgram", FALSE, 0),
         LAMBDA s2 :
    Bind(renderScene([s2 EXCEPT !.currentNodePath = << >>,
                                !.pickingNodePathList = << >>]),
         LAMBDA s3 :
    Bind(popProgram(s3, 0),
         LAMBDA s4 : endRendering([logPhase(s4, "endRendering") EXCEPT
                                      !.isPicking = FALSE, !.ended = TRUE])))))

\* st.covering: the leaves whose geometry covers pixel (x, y); st.ret is the result
doPick(st, unprojectOk, neg) ==
    Bind(renderPickingPass(st),
         LAMBDA s5 : resolvePick(s5, DecodedId(s5.fbColor, neg), unprojectOk))

-----------------------------------------------------------------------------
(* The renderer as a state machine: one action per API call *)

EmptyHeap == [o \in Objects |-> 0]

\* the state GLSLSceneRendererImpl::initialize() leaves
InitialImpl ==
    [resourceMaps |-> <<EmptyMap, EmptyMap>>,
     currentResourceMapIndex |-> 0,
     doUnusedResourceCheck |-> TRUE,
     isCheckingUnusedResources |-> FALSE,
     hasValidNextResourceMap |-> FALSE,
     isResourceClearRequested |-> FALSE,
     isActuallyRendering |-> FALSE,
     isPicking |-> FALSE,
     isRenderingShadowMap |-> FALSE,
     isMinimumLightingProgramActivatedInThisFrame |-> FALSE,
     backFaceCullingMode |-> "ENABLE_BACK_FACE_CULLING",
     stateFlag |-> {},
     isCullFaceEnabled |-> FALSE,
     lightingMode |-> "FULL_LIGHTING",
     shadowLightIndices |-> {},
     numShadows |-> 0,
     postRenderingFunctions |-> << >>,
     transparentRenderingFunctions |-> << >>,
     modelMatrixStack |-> 0,
     solidColor |-> PlainColor,
     currentNodePath |-> << >>,
     pickingNodePathList |-> << >>,
     pickedNodePath |-> NoPath,
     currentProgram |-> NoProgram,
     programStack |-> << >>,
     textures |-> [k \in Images |-> [g \in Generations |-> NewTextureResource]],
     vertexResources |-> [k \in Leaves |-> [g \in Generations |-> NewVertexResource]]]

\* handles: the vertex arrays, buffers, textures and samplers that are allocated
InitialGL ==
    [fbColor |-> Black, fbDepth |-> 0, blend |-> FALSE, depthMask |-> TRUE,
     textureEnabled |-> FALSE, handles |-> {}, cullFace |-> FALSE]

NoFrame ==
    [op |-> "none",
     before |-> [cached |-> {}, clearRequested |-> FALSE, check |-> TRUE],
     lookups |-> << >>, draws |-> << >>, pickCalls |-> << >>, programCalls |-> << >>,
     textureCalls |-> << >>, deferrals |-> << >>, transparentPasses |-> 0,
     ended |-> FALSE, dropped |-> {}, phases |-> << >>,
     lightCalls |-> << >>, shadowTries |-> << >>, cullFaceCalls |-> << >>,
     resourceCalls |-> << >>, updated |-> {}, textureLoads |-> << >>,
     covering |-> {}, unprojectOk |-> FALSE, found |-> FALSE]

Lights ==
    <<[on |-> TRUE, shadowCamera |-> TRUE, accepted |-> TRUE],
      [on |-> FALSE, shadowCamera |-> TRUE, accepted |-> TRUE]>>

\* the head light of the renderer: on, and accepted by every lighting program
DefaultHeadLight == [on |-> TRUE, accepted |-> TRUE]

\* scene graphs over the kinds in `roots` and `groups` for nodes 1 and 2
Scenes(roots, groups, leaves5) ==
    {[kind |-> <<r, g, "SgShape", l4, l5>>, transparent |-> t, switchOn |-> TRUE,
      camera |-> TRUE, lights |-> Lights, headLight |-> DefaultHeadLight, solid |-> Leaves,
      geometry |-> [n \in Leaves |-> "ok"], image |-> [n \in Leaves |-> NoTexture],
      imageSize |-> [n \in Leaves |-> DefaultSize]] :
        r \in roots, g \in groups, l4 \in {"SgShape", "SgLineSet"}, l5 \in leaves5,
        t \in SUBSET {3, 5}}

ValidScene(sc) == \A n \in sc.transparent : sc.kind[n] = "SgShape"

\* the scenes of the cache specification: a plain root over every kind of group
CacheScenes ==
    {sc \in Scenes({"SgGroup"}, GroupKinds, {"SgPointSet"})
               \cup Scenes({"SgSwitch"}, {"SgGroup"}, {"SgPointSet"}) : ValidScene(sc)}

\* lighting mode and shadow light set, as set by setLightingMode / enableShadowOfLight
RenderConfigs == {<<"FULL_LIGHTING", {0, 1}>>}

InitIn(scenes, configs) ==
    /\ scene \in scenes
    /\ \E c \in configs :
          impl = [InitialImpl EXCEPT !.lightingMode = c[1], !.shadowLightIndices = c[2]]
    /\ gl = InitialGL
    /\ heap = EmptyHeap
    /\ frame = NoFrame
    /\ tracked = EmptyHeap

InitWith(scenes) == InitIn(scenes, RenderConfigs)

InitRenderer == InitWith(CacheScenes)

\* the frame state a doRender or doPick call starts from
FrameState(covering) ==
    impl @@ gl @@ [heap |-> heap, lookups |-> << >>, draws |-> << >>, ret |-> 0,
                   pickCalls |-> << >>, programCalls |-> << >>, textureCalls |-> << >>,
                   deferrals |-> << >>, transparentPasses |-> 0, ended |-> FALSE,
                   dropped |-> {}, phases |-> << >>,
                   lightCalls |-> << >>, shadowTries |-> << >>, cullFaceCalls |-> << >>,
                   resourceCalls |-> << >>, textureLoads |-> << >>,
                   phase |-> "none", covering |-> covering, shadowMapIndex |-> 0]

Cached(im) == {o \in Objects : \E i \in 1..2 : im.resourceMaps[i][o] # NoResource}

LookedUp(lookups) == {lookups[i].obj : i \in 1..Len(lookups)}

FirstLookup(lookups, o) ==
    lookups[CHOOSE i \in 1..Len(lookups) :
                /\ lookups[i].obj = o
                /\ \A j \in 1..(i - 1) : lookups[j].obj # o]

\* history for the stable-handle property: the resource created for o by a lookup,
\* for as long as the check stays enabled, no clear is requested and every doRender
\* frame looks o up
Track(st, isRender) ==
    [o \in Objects |->
        IF ~impl.doUnusedResourceCheck THEN NoResource
        ELSE IF o \in LookedUp(st.lookups)
             THEN IF tracked[o] # NoResource THEN tracked[o]
                  ELSE IF FirstLookup(st.lookups, o).created
                       THEN FirstLookup(st.lookups, o).res
                       ELSE NoResource
             ELSE IF isRender THEN NoResource ELSE tracked[o]]

Commit(st, op, covering, unprojectOk, found) ==
    /\ \A o \in Objects : st.heap[o] <= MaxGen
    /\ impl' = [f \in DOMAIN impl |-> st[f]]
    /\ gl' = [f \in DOMAIN gl |-> st[f]]
    /\ heap' = st.heap
    /\ frame' = [op |-> op,
                 before |-> [cached |-> Cached(impl),
                             clearRequested |-> impl.isResourceClearRequested,
                             check |-> impl.doUnusedResourceCheck],
                 lookups |-> st.lookups, draws |-> st.draws,
                 pickCalls |-> st.pickCalls, programCalls |-> st.programCalls,
                 textureCalls |-> st.textureCalls, deferrals |-> st.deferrals,
                 transparentPasses |-> st.transparentPasses, ended |-> st.ended,
                 dropped |-> st.dropped, phases |-> st.phases,
                 lightCalls |-> st.lightCalls, shadowTries |-> st.shadowTries,
                 cullFaceCalls |-> st.cullFaceCalls,
                 resourceCalls |-> st.resourceCalls, updated |-> {},
                 textureLoads |-> st.textureLoads,
                 covering |-> covering, unprojectOk |-> unprojectOk, found |-> found]
    /\ tracked' = Track(st, op = "doRender")
    /\ UNCHANGED <<scene, otherVars>>

DoRender ==
    \E st \in {doRender(FrameState({}))} : Commit(st, "doRender", {}, FALSE, FALSE)

\* doPick(x, y) at a pixel covered by the leaves in one of `pixels`
DoPickWith(pixels, unprojections, conversions) ==
    \E covering \in pixels :
        \E pass \in {renderPickingPass(FrameState(covering))} :
            \E unprojectOk \in unprojections, neg \in conversions :
                \E st \in {resolvePick(pass, DecodedId(pass.fbColor, neg), unprojectOk)} :
                    Commit(st, "doPick", covering, unprojectOk, st.ret)

DoPickIn(pixels) == DoPickWith(pixels, BOOLEAN, NegativeToUnsigned)

DoPick == DoPickIn({{4}})

RequestToClearResources ==
    /\ impl' = [impl EXCEPT !.isResourceClearRequested = TRUE]
    /\ frame' = [NoFrame EXCEPT !.op = "requestToClearResources"]
    /\ tracked' = EmptyHeap
    /\ UNCHANGED <<scene, gl, heap, otherVars>>

\* nextResourceMap->clear() destroys the resources only that map referred to
enableUnusedResourceCheck(st, on) ==
    Bind(IF ~on
         THEN destroyResources(
                  [st EXCEPT !.resourceMaps[(1 - st.currentResourceMapIndex) + 1] = EmptyMap],
                  st.resourceMaps)
         ELSE st,
         LAMBDA s1 : [s1 EXCEPT !.doUnusedResourceCheck = on])

EnableUnusedResourceCheck ==
    \E on \in BOOLEAN :
        \E st \in {enableUnusedResourceCheck(FrameState({}), on)} :
            /\ impl' = [f \in DOMAIN impl |-> st[f]]
            /\ gl' = [f \in DOMAIN gl |-> st[f]]
            /\ frame' = [NoFrame EXCEPT !.op = "enableUnusedResourceCheck",
                                        !.dropped = st.dropped]
            /\ tracked' = IF on THEN tracked ELSE EmptyHeap
            /\ UNCHANGED <<scene, heap, otherVars>>

\* the scene owner turns the switch nodes on or off between frames
SetTurnedOn ==
    /\ \E n \in Nodes : Kind(n) = "SgSwitch"
    /\ scene' = [scene EXCEPT !.switchOn = ~@]
    /\ frame' = [NoFrame EXCEPT !.op = "setTurnedOn"]
    /\ UNCHANGED <<impl, gl, heap, tracked, otherVars>>

\* GLSLSceneRenderer::onImageUpdated(image)
onImageUpdated(st, image) ==
    IF st.resourceMaps[(IF st.hasValidNextResourceMap
                        THEN 1 - st.currentResourceMapIndex
                        ELSE st.currentResourceMapIndex) + 1][image] # NoResource
    THEN [st EXCEPT !.textures[image][st.resourceMaps[(IF st.hasValidNextResourceMap
                                                       THEN 1 - st.currentResourceMapIndex
                                                       ELSE st.currentResourceMapIndex) + 1][image]]
                        .isImageUpdateNeeded = TRUE]
    ELSE st

\* the owner of the image of shape n's texture gives it new pixels, with a channel
\* count of ChannelCounts, or empties it, and notifies the renderer
UpdateImage ==
    \E n \in Leaves, numComponents \in ChannelCounts \cup {EmptyImage} :
        /\ scene.image[n] # NoTexture
        /\ scene' = [scene EXCEPT !.image[n] = numComponents]
        /\ impl' = onImageUpdated(impl, Image(n))
        /\ frame' = [NoFrame EXCEPT !.op = "onImageUpdated"]
        /\ UNCHANGED <<gl, heap, tracked, otherVars>>

\* the owner replaces the image of shape n's texture by one of another size and
\* channel count, and notifies the renderer
ReplaceImage ==
    \E n \in Leaves, numComponents \in LoadableChannelCounts, size \in ImageSizes :
        /\ scene.image[n] # NoTexture
        /\ scene' = [scene EXCEPT !.image[n] = numComponents, !.imageSize[n] = size]
        /\ impl' = onImageUpdated(impl, Image(n))
        /\ frame' = [NoFrame EXCEPT !.op = "onImageUpdated"]
        /\ UNCHANGED <<gl, heap, tracked, otherVars>>

onUpdated_DeleteBuffers(im, obj) ==
    [im EXCEPT !.vertexResources[obj] =
                   [g \in Generations |-> IF <<obj, g>> \in Referenced(im.resourceMaps)
                                          THEN NewVertexResource ELSE @[g]]]

\* the slot the constructor of VertexResource connects to obj->sigUpdated(), run for
\* every living resource of `obj`
onUpdated(im, obj) ==
    [im EXCEPT !.vertexResources[obj] =
                   [g \in Generations |-> IF <<obj, g>> \in Referenced(im.resourceMaps)
                                          THEN [@[g] EXCEPT !.numVertices = 0] ELSE @[g]]]

\* the owner of the cached object `obj` changes it and notifies the change
NotifyUpdate ==
    \E obj \in Leaves :
        /\ \E g \in Generations : <<obj, g>> \in Referenced(impl.resourceMaps)
        /\ impl' = onUpdated(impl, obj)
        /\ frame' = [NoFrame EXCEPT !.op = "sigUpdated", !.updated = {obj}]
        /\ UNCHANGED <<scene, gl, heap, tracked, otherVars>>

SetBackFaceCullingMode ==
    \E mode \in BackFaceCullingModes :
        /\ impl' = [impl EXCEPT !.backFaceCullingMode = mode]
        /\ frame' = [NoFrame EXCEPT !.op = "setBackFaceCullingMode"]
        /\ UNCHANGED <<scene, gl, heap, tracked, otherVars>>

NextRenderer ==
    \/ DoRender
    \/ DoPick
    \/ RequestToClearResources
    \/ EnableUnusedResourceCheck
    \/ SetTurnedOn

-----------------------------------------------------------------------------
(* The process-wide registry of live renderers and of extension functions. *)
(* Threads construct renderers, destroy them and add extensions; a step is *)
(* one lock operation or the beginning or the end of one access to a       *)
(* shared container, so that accesses of two threads can overlap.          *)

\* threads that construct and destroy renderers and add extensions
NumThreads == 2

\* renderer instances constructed over a behaviour
NumRenderers == 2

\* extension functions added over a behaviour
MaxExtensions == 2

Threads == 1..NumThreads

RendererIds == 1..NumRenderers

NoThread == 0

IdleThread ==
    [pc |-> "idle", renderer |-> 0, func |-> 0, snapshot |-> {}, visited |-> {},
     accessing |-> "none"]

ExtThread(t) == extThreads[t]

\* a call of the constructor, up to the call of initialize()
GLSLSceneRenderer_new(t) ==
    /\ ExtThread(t).pc = "idle"
    /\ \E r \in RendererIds :
          /\ rendererLife[r] = "none"
          /\ rendererLife' = [rendererLife EXCEPT ![r] = "constructing"]
          /\ extThreads' = [extThreads EXCEPT ![t] = [@ EXCEPT !.pc = "initialize_lock", !.renderer = r]]
    /\ UNCHANGED <<extensionMutex, renderers, extendFunctions, newExtendFunctions, appliedFunctions>>

\* a call of the destructor of a live renderer
GLSLSceneRenderer_delete(t) ==
    /\ ExtThread(t).pc = "idle"
    /\ \E r \in RendererIds :
          /\ rendererLife[r] = "live"
          /\ rendererLife' = [rendererLife EXCEPT ![r] = "destructing"]
          /\ extThreads' = [extThreads EXCEPT ![t] = [@ EXCEPT !.pc = "destructor_lock", !.renderer = r]]
    /\ UNCHANGED <<extensionMutex, renderers, extendFunctions, newExtendFunctions, appliedFunctions>>

\* a call of addExtension(func)
addExtension_call(t) ==
    /\ ExtThread(t).pc = "idle"
    /\ Len(extendFunctions) < MaxExtensions
    /\ extThreads' = [extThreads EXCEPT ![t] = [@ EXCEPT !.pc = "addExtension_lock"]]
    /\ UNCHANGED <<extensionMutex, renderers, extendFunctions, newExtendFunctions, appliedFunctions, rendererLife>>

AfterLock(pc) ==
    CASE pc = "initialize_lock" -> "insert"
      [] pc = "destructor_lock" -> "erase"
      [] pc = "addExtension_lock" -> "push_back"
      [] pc = "applyExtensions_lock" -> "apply"

\* std::lock_guard<std::mutex> guard(extensionMutex)
lock_guard(t) ==
    /\ ExtThread(t).pc \in {"initialize_lock", "destructor_lock", "addExtension_lock",
                            "applyExtensions_lock"}
    /\ extensionMutex = NoThread
    /\ extensionMutex' = t
    /\ extThreads' = [extThreads EXCEPT ![t].pc = AfterLock(@)]
    /\ UNCHANGED <<renderers, extendFunctions, newExtendFunctions, appliedFunctions, rendererLife>>

AccessKind(pc) == IF pc = "iterate" THEN "read" ELSE "write"

\* the thread enters renderers.insert, renderers.erase or the loop over renderers
beginAccess(t) ==
    /\ ExtThread(t).pc \in {"insert", "erase", "iterate"}
    /\ ExtThread(t).accessing = "none"
    /\ extThreads' = [extThreads EXCEPT ![t] = [@ EXCEPT !.accessing = AccessKind(ExtThread(t).pc),
                                                          !.snapshot = renderers]]
    /\ UNCHANGED <<extensionMutex, renderers, extendFunctions, newExtendFunctions, appliedFunctions, rendererLife>>

\* initialize(): renderers.insert(self) completes
initialize_insert(t) ==
    /\ ExtThread(t).pc = "insert" /\ ExtThread(t).accessing = "write"
    /\ renderers' = renderers \cup {ExtThread(t).renderer}
    /\ extThreads' = [extThreads EXCEPT ![t] = [@ EXCEPT !.pc = "initialize_unlock", !.accessing = "none"]]
    /\ UNCHANGED <<extensionMutex, extendFunctions, newExtendFunctions, appliedFunctions, rendererLife>>

\* ~GLSLSceneRenderer(): renderers.erase(this) completes
destructor_erase(t) ==
    /\ ExtThread(t).pc = "erase" /\ ExtThread(t).accessing = "write"
    /\ renderers' = renderers \ {ExtThread(t).renderer}
    /\ extThreads' = [extThreads EXCEPT ![t] = [@ EXCEPT !.pc = "delete_impl", !.accessing = "none"]]
    /\ UNCHANGED <<extensionMutex, extendFunctions, newExtendFunctions, appliedFunctions, rendererLife>>

\* ~GLSLSceneRenderer(): delete impl
destructor_delete_impl(t) ==
    /\ ExtThread(t).pc = "delete_impl"
    /\ rendererLife' = [rendererLife EXCEPT ![ExtThread(t).renderer] = "destroyed"]
    /\ extThreads' = [extThreads EXCEPT ![t].pc = "destructor_unlock"]
    /\ UNCHANGED <<extensionMutex, renderers, extendFunctions, newExtendFunctions, appliedFunctions>>

\* addExtension(): extendFunctions.push_back(func)
addExtension_push_back(t) ==
    /\ ExtThread(t).pc = "push_back"
    /\ extendFunctions' = Append(extendFunctions, Len(extendFunctions) + 1)
    /\ extThreads' = [extThreads EXCEPT ![t] = [@ EXCEPT !.pc = "addExtension_unlock",
                                                          !.func = Len(extendFunctions) + 1]]
    /\ UNCHANGED <<extensionMutex, renderers, newExtendFunctions, appliedFunctions, rendererLife>>

\* applyExtensions(): every function of extendFunctions is applied to the renderer
applyExtensions(t) ==
    /\ ExtThread(t).pc = "apply"
    /\ appliedFunctions' =
          [appliedFunctions EXCEPT ![ExtThread(t).renderer] = @ \o extendFunctions]
    /\ extThreads' = [extThreads EXCEPT ![t].pc = "applyExtensions_unlock"]
    /\ UNCHANGED <<extensionMutex, renderers, extendFunctions, newExtendFunctions, rendererLife>>

AfterUnlock(pc) ==
    CASE pc = "initialize_unlock" -> "applyExtensions_lock"
      [] pc = "addExtension_unlock" -> "iterate"
      [] pc = "applyExtensions_unlock" -> "idle"
      [] pc = "destructor_unlock" -> "idle"

LifeAfterUnlock(pc, life) ==
    IF pc = "applyExtensions_unlock" THEN "live" ELSE life

\* the guard goes out of scope; initialize() returns after applyExtensions()
unlock_guard(t) ==
    /\ ExtThread(t).pc \in {"initialize_unlock", "addExtension_unlock", "applyExtensions_unlock",
                            "destructor_unlock"}
    /\ extensionMutex' = NoThread
    /\ rendererLife' =
          [r \in RendererIds |->
              IF r = ExtThread(t).renderer
              THEN LifeAfterUnlock(ExtThread(t).pc, rendererLife[r]) ELSE rendererLife[r]]
    /\ extThreads' = [extThreads EXCEPT ![t] =
                         IF AfterUnlock(@.pc) = "idle" THEN IdleThread
                         ELSE [@ EXCEPT !.pc = AfterUnlock(@)]]
    /\ UNCHANGED <<renderers, extendFunctions, newExtendFunctions, appliedFunctions>>

\* onExtensionAdded(func), under the renderer's own newExtensionMutex
onExtensionAdded(r, func) == [newExtendFunctions EXCEPT ![r] = Append(@, func)]

\* one turn of `for(renderer : renderers) renderer->impl->onExtensionAdded(func)`.
\* The loop runs without extensionMutex: an element inserted or erased meanwhile may
\* or may not be visited, and visiting a renderer whose impl was deleted is a use of
\* freed memory, after which the thread either goes on or faults.
addExtension_visit(t) ==
    /\ ExtThread(t).pc = "iterate" /\ ExtThread(t).accessing = "read"
    /\ \E r \in (ExtThread(t).snapshot \cup renderers) \ ExtThread(t).visited :
          /\ IF rendererLife[r] # "destroyed"
             THEN /\ newExtendFunctions' = onExtensionAdded(r, ExtThread(t).func)
                  /\ extThreads' = [extThreads EXCEPT ![t].visited = @ \cup {r}]
             ELSE /\ UNCHANGED newExtendFunctions
                  /\ \E fault \in BOOLEAN :
                        extThreads' = [extThreads EXCEPT ![t] =
                                          [@ EXCEPT !.visited = @ \cup {r},
                                                    !.pc = IF fault THEN "fault" ELSE @]]
    /\ UNCHANGED <<extensionMutex, renderers, extendFunctions, appliedFunctions, rendererLife>>

\* the loop over renderers ends: after every renderer that was in the set all along;
\* or, the set being a tree that an insert or erase of another thread relinks while
\* the loop follows its links, at any turn made during such a write
addExtension_return(t) ==
    /\ ExtThread(t).pc = "iterate" /\ ExtThread(t).accessing = "read"
    /\ \/ (ExtThread(t).snapshot \cap renderers) \subseteq ExtThread(t).visited
       \/ \E u \in Threads \ {t} : ExtThread(u).accessing = "write"
    /\ extThreads' = [extThreads EXCEPT ![t] = IdleThread]
    /\ UNCHANGED <<extensionMutex, renderers, extendFunctions, newExtendFunctions, appliedFunctions, rendererLife>>

\* applyNewExtensions() on the rendering thread of a live renderer
applyNewExtensions ==
    /\ \E r \in RendererIds :
          /\ rendererLife[r] = "live"
          /\ newExtendFunctions[r] # << >>
          /\ appliedFunctions' = [appliedFunctions EXCEPT ![r] = @ \o newExtendFunctions[r]]
          /\ newExtendFunctions' = [newExtendFunctions EXCEPT ![r] = << >>]
    /\ UNCHANGED <<extensionMutex, renderers, extendFunctions, rendererLife, extThreads>>

InitExtensions ==
    /\ extensionMutex = NoThread
    /\ renderers = {}
    /\ extendFunctions = << >>
    /\ newExtendFunctions = [r \in RendererIds |-> << >>]
    /\ appliedFunctions = [r \in RendererIds |-> << >>]
    /\ rendererLife = [r \in RendererIds |-> "none"]
    /\ extThreads = [t \in Threads |-> IdleThread]

-----------------------------------------------------------------------------
(* The vertex-array lock. Each renderer runs on a thread of its own with   *)
(* its own GL context; a routine is the sequence of its lock operations    *)
(* and GL calls, and a GL call takes two steps, its entry and its return.  *)

\* drawVertexResource: the bind and the draw
drawVertexResourceCalls == <<"glBindVertexArray", "glDrawArrays">>

\* writeMeshVertices: the block under LockVertexArrayAPI and the upload
writeMeshVerticesCalls ==
    <<"lock", "glBindVertexArray", "glBindBuffer", "glVertexAttribPointer", "unlock",
      "glBufferData", "glEnableVertexAttribArray">>

\* writeMeshNormalsPacked / writeMeshNormalsFloat
writeMeshNormalsCalls ==
    <<"lock", "glBindBuffer", "glVertexAttribPointer", "unlock", "glBufferData",
      "glEnableVertexAttribArray">>

\* renderPlot: for a resource that is not valid yet, the bind and the vertex (and
\* colour) buffers; then the draw
renderPlotCalls(valid, colored) ==
    (IF valid THEN << >>
     ELSE <<"glBindVertexArray", "lock", "glBindBuffer", "glVertexAttribPointer", "unlock",
            "glBufferData", "glEnableVertexAttribArray">>
          \o (IF colored
              THEN <<"lock", "glBindBuffer", "glVertexAttribPointer", "unlock", "glBufferData",
                     "glEnableVertexAttribArray">>
              ELSE << >>))
    \o drawVertexResourceCalls

\* renderShapeMain: for a resource that is not valid yet, the mesh buffers; then the draw
renderShapeMainCalls(valid) ==
    (IF valid THEN << >> ELSE writeMeshVerticesCalls \o writeMeshNormalsCalls)
    \o drawVertexResourceCalls

Routines ==
    {renderShapeMainCalls(v) : v \in BOOLEAN}
        \cup {renderPlotCalls(v, c) : v \in BOOLEAN, c \in BOOLEAN}

VertexArrayCalls == {"glBindVertexArray", "glVertexAttribPointer"}

IdleRoutine == [calls |-> << >>, inCall |-> FALSE]

\* a rendering thread starts to draw a shape or a plot
beginRoutine(t) ==
    /\ vaThreads[t].calls = << >>
    /\ \E r \in Routines : vaThreads' = [vaThreads EXCEPT ![t].calls = r]
    /\ UNCHANGED vertexArrayMutex

\* LockVertexArrayAPI(): vertexArrayMutex.lock()
LockVertexArrayAPI(t) ==
    /\ vaThreads[t].calls # << >> /\ Head(vaThreads[t].calls) = "lock"
    /\ vertexArrayMutex = NoThread
    /\ vertexArrayMutex' = t
    /\ vaThreads' = [vaThreads EXCEPT ![t].calls = Tail(@)]

\* ~LockVertexArrayAPI(): vertexArrayMutex.unlock()
UnlockVertexArrayAPI(t) ==
    /\ vaThreads[t].calls # << >> /\ Head(vaThreads[t].calls) = "unlock"
    /\ vertexArrayMutex' = NoThread
    /\ vaThreads' = [vaThreads EXCEPT ![t].calls = Tail(@)]

\* the thread enters the GL call at the head of its routine
enterGLCall(t) ==
    /\ vaThreads[t].calls # << >> /\ Head(vaThreads[t].calls) \notin {"lock", "unlock"}
    /\ ~vaThreads[t].inCall
    /\ vaThreads' = [vaThreads EXCEPT ![t].inCall = TRUE]
    /\ UNCHANGED vertexArrayMutex

\* the GL call returns
returnFromGLCall(t) ==
    /\ vaThreads[t].inCall
    /\ vaThreads' = [vaThreads EXCEPT ![t] = [calls |-> Tail(@.calls), inCall |-> FALSE]]
    /\ UNCHANGED vertexArrayMutex

InVertexArrayCall(t) == vaThreads[t].inCall /\ Head(vaThreads[t].calls) \in VertexArrayCalls

InitVertexArray ==
    /\ vertexArrayMutex = NoThread
    /\ vaThreads = [t \in Threads |-> IdleRoutine]

-----------------------------------------------------------------------------
(* The packed normals of writeMeshNormalsPacked. A component is the float  *)
(* s * m / 2^e with m * 511 < 2^24, so that c * 511 is exact in float32;   *)
(* what float32 rounds is the sum with 512 for a negative component.       *)

\* the coarse grid of components has steps of 1 / 2^GridBits
GridBits == 3

\* the fine components are the powers of two down to 1 / 2^FineBits, and their negatives
FineBits == 26

\* vectors appended to one NormalArrayWrapper
MaxNormals == 1

Zero == [neg |-> FALSE, m |-> 0, e |-> 0]

CoarseComponents ==
    {[neg |-> s, m |-> k, e |-> GridBits] : s \in BOOLEAN, k \in 1..(2^GridBits)} \cup {Zero}

FineComponents == {[neg |-> s, m |-> 1, e |-> j] : s \in BOOLEAN, j \in (GridBits + 1)..FineBits}

Components == CoarseComponents \cup FineComponents

ProbeComponents == {Zero, [neg |-> FALSE, m |-> 1, e |-> 0], [neg |-> TRUE, m |-> 1, e |-> 0]}

InputVectors ==
    {<<c, p, q>> : c \in Components, p \in ProbeComponents, q \in ProbeComponents}
        \cup {<<p, c, q>> : c \in Components, p \in ProbeComponents, q \in ProbeComponents}
        \cup {<<p, q, c>> : c \in Components, p \in ProbeComponents, q \in ProbeComponents}

\* v < 0.0f
IsNegative(c) == c.neg /\ c.m > 0

\* the least k with n <= 2^k, for n in 1..512
Log2Ceil(n) == CHOOSE k \in 0..9 : n <= 2^k /\ (k = 0 \/ n > 2^(k - 1))

\* (uint32_t)(c * 511 + (s << 9)). The product is exact and, for c >= 0, so is the
\* sum. For c < 0 the sum 512 - 511 * m / 2^e lies just below the integer n = 512 - I
\* when the fraction F / 2^e of the product is not 0; the float32 below n is half of
\* 2^(Log2Ceil(n) - 24) away from the midpoint, and round-to-nearest-even takes the
\* sum up to n when it is at or above that midpoint. The conversion then truncates.
ScaledComponent(c) ==
    LET t == 511 * c.m
        I == t \div (2^c.e)
        F == t % (2^c.e)
        n == 512 - I
        x == c.e + Log2Ceil(n) - 25
    IN  IF ~IsNegative(c) THEN I
        ELSE IF F = 0 THEN n
        ELSE IF x >= 0 /\ F <= 2^x THEN n
        ELSE n - 1

SignBit(c) == IF IsNegative(c) THEN 1 ELSE 0

\* s << 9 | (uint32_t)(...) & 511
PackedField(c) == SignBit(c) * 512 + (ScaledComponent(c) % 512)

\* NormalArrayWrapper::append: the word pushed for v
append(v) == PackedField(v[3]) * 1048576 + PackedField(v[2]) * 1024 + PackedField(v[1])

\* one turn of the loop of NormalArrayWrapper::get, as the fraction num / den
getComponent(packed) ==
    IF (packed \div 512) % 2 = 1
    THEN [num |-> (packed % 512) - 512, den |-> 512]
    ELSE [num |-> packed % 512, den |-> 511]

\* NormalArrayWrapper::get(index), index counted from 0
get(array, index) ==
    LET packed == array[index + 1]
    IN  <<getComponent(packed), getComponent(packed \div 1024), getComponent(packed \div 1048576)>>

NoNormal == [index |-> -1, v |-> << >>]

NormalArrayWrapper_append ==
    /\ Len(normals) < MaxNormals
    /\ \E v \in InputVectors :
          /\ normals' = Append(normals, append(v))
          /\ normalSources' = Append(normalSources, v)
    /\ UNCHANGED decodedNormal

NormalArrayWrapper_get ==
    /\ \E index \in 0..(Len(normals) - 1) :
          decodedNormal' = [index |-> index, v |-> get(normals, index)]
    /\ UNCHANGED <<normals, normalSources>>

InitNormals ==
    /\ normals = << >>
    /\ normalSources = << >>
    /\ decodedNormal = NoNormal

-----------------------------------------------------------------------------
(* The normals of a mesh: writeMeshNormalsSub.  Positions are integer      *)
(* vectors.  A normalized vector is represented by the primitive integer   *)
(* vector of its direction (the vector divided by the gcd of its           *)
(* components): two vectors normalize to the same unit vector exactly when *)
(* these are equal.  The zero vector has no direction and stays zero.      *)

\* the greatest number of triangles of a mesh
MaxTriangles == 2

Abs(n) == IF n < 0 THEN -n ELSE n

RECURSIVE Gcd(_, _)
Gcd(a, b) == IF b = 0 THEN a ELSE Gcd(b, a % b)

\* operator-, cross() and normalized() of Vector3f
Minus(a, b) == <<a[1] - b[1], a[2] - b[2], a[3] - b[3]>>

cross(a, b) ==
    <<a[2] * b[3] - a[3] * b[2], a[3] * b[1] - a[1] * b[3], a[1] * b[2] - a[2] * b[1]>>

Scale(v) == Gcd(Gcd(Abs(v[1]), Abs(v[2])), Abs(v[3]))

normalized(v) ==
    IF Scale(v) = 0 THEN v ELSE <<v[1] \div Scale(v), v[2] \div Scale(v), v[3] \div Scale(v)>>

\* the vertex arrays, the index triples (0-based) and the normal arrays of the meshes
VertexArrays ==
    {<<<<0, 0, 0>>, <<1, 0, 0>>, <<0, 1, 0>>, <<0, 0, 1>>>>,
     <<<<0, 0, 0>>, <<2, 0, 0>>, <<1, 1, 0>>, <<1, 1, 2>>>>}

IndexTriples == {<<0, 1, 2>>, <<0, 2, 1>>, <<1, 2, 3>>, <<3, 1, 0>>, <<2, 3, 0>>, <<0, 0, 1>>}

NormalArrays == {<<<<0, 0, 1>>, <<0, 1, 0>>, <<1, 0, 0>>, <<1, 1, 1>>>>}

\* mesh->normals() is null
NoNormals == << >>

RECURSIVE Flatten(_)
Flatten(triples) ==
    IF triples = << >> THEN << >> ELSE Head(triples) \o Flatten(Tail(triples))

TripleLists == UNION {[1..n -> IndexTriples] : n \in 0..MaxTriangles}

\* per-corner normal indices, when the mesh has them: here the corner's vertex index
\* counted from the other end of the normal array
CornerIndices(triangleVertices) ==
    [k \in 1..Len(triangleVertices) |-> 3 - triangleVertices[k]]

Meshes ==
    {[vertices |-> va, triangleVertices |-> Flatten(tl), normals |-> na,
      normalIndices |-> IF indexed THEN CornerIndices(Flatten(tl)) ELSE << >>] :
        va \in VertexArrays, tl \in TripleLists, na \in NormalArrays \cup {NoNormals},
        indexed \in BOOLEAN}

\* SgMesh::numTriangles(): triangleVertices.size() / 3
numTriangles(m) == Len(m.triangleVertices) \div 3

\* SgMesh::triangle(i): the three vertex indices of triangle i
triangle(m, i) ==
    <<m.triangleVertices[3 * i + 1], m.triangleVertices[3 * i + 2], m.triangleVertices[3 * i + 3]>>

\* orgVertices[index]
orgVertex(m, index) == m.vertices[index + 1]

faceNormal_FirstTriangle(m, i) ==
    normalized(cross(Minus(orgVertex(m, triangle(m, 0)[2]), orgVertex(m, triangle(m, 0)[1])),
                     Minus(orgVertex(m, triangle(m, 0)[3]), orgVertex(m, triangle(m, 0)[1]))))

\* e1.cross(e2).normalized() of triangle i
faceNormal(m, i) ==
    normalized(cross(Minus(orgVertex(m, triangle(m, i)[2]), orgVertex(m, triangle(m, i)[1])),
                     Minus(orgVertex(m, triangle(m, i)[3]), orgVertex(m, triangle(m, i)[1]))))

\* the normals appended by the flat shading branch, by the branch for normals
\* without indices and by the branch for indexed normals
flatNormals(m) == [k \in 1..(3 * numTriangles(m)) |-> faceNormal(m, (k - 1) \div 3)]

vertexNormals(m) ==
    [k \in 1..(3 * numTriangles(m)) |-> m.normals[m.triangleVertices[k] + 1]]

indexedNormals(m) ==
    [k \in 1..(3 * numTriangles(m)) |-> m.normals[m.normalIndices[k] + 1]]

\* the array and the value of `ready` when the branches are done
appendedNormals(m, sh) ==
    IF ~sh.defaultSmoothShading
    THEN [array |-> flatNormals(m), ready |-> TRUE]
    ELSE IF m.normals # NoNormals
         THEN [array |-> IF m.normalIndices = << >> THEN vertexNormals(m)
                                                 ELSE indexedNormals(m),
               ready |-> TRUE]
         ELSE [array |-> << >>, ready |-> FALSE]

\* the outcomes of the normal visualization: its loop reads normals.get(vertexIndex)
\* for every corner; the read of an element the array does not have is undefined
Visualizations(m, sh, array) ==
    IF ~sh.isNormalVisualizationEnabled THEN {"none"}
    ELSE IF Len(array) >= 3 * numTriangles(m) THEN {"lines"}
    ELSE {"garbage", "fault"}

NoNormalArray ==
    [called |-> FALSE, smooth |-> TRUE, array |-> << >>, ready |-> FALSE,
     visualization |-> "none"]

writeMeshNormalsSub ==
    /\ \E v \in Visualizations(mesh, shading, appendedNormals(mesh, shading).array) :
          normalArray' = [called |-> TRUE,
                          smooth |-> shading.defaultSmoothShading,
                          array |-> appendedNormals(mesh, shading).array,
                          ready |-> appendedNormals(mesh, shading).ready,
                          visualization |-> v]
    /\ UNCHANGED <<mesh, shading>>

\* GLSLSceneRenderer::requestToClearResources, called by a setter
requestToClearResources ==
    /\ impl' = [impl EXCEPT !.isResourceClearRequested = TRUE]
    /\ frame' = [NoFrame EXCEPT !.op = "requestToClearResources"]
    /\ tracked' = EmptyHeap

setDefaultSmoothShading ==
    \E on \in BOOLEAN :
        /\ on # shading.defaultSmoothShading
        /\ shading' = [shading EXCEPT !.defaultSmoothShading = on]
        /\ requestToClearResources
        /\ UNCHANGED <<mesh, normalArray>>

\* the lengths given to showNormalVectors
Lengths == {0, 1}

showNormalVectors ==
    \E length \in Lengths :
        /\ (length > 0) # shading.isNormalVisualizationEnabled
           \/ length # shading.normalVisualizationLength
        /\ shading' = [shading EXCEPT !.isNormalVisualizationEnabled = (length > 0),
                                      !.normalVisualizationLength = length]
        /\ requestToClearResources
        /\ UNCHANGED <<mesh, normalArray>>

\* the mesh of a shape without triangles
EmptyMesh ==
    [vertices |-> << >>, triangleVertices |-> << >>, normals |-> NoNormals,
     normalIndices |-> << >>]

InitMeshWith(meshes) ==
    /\ mesh \in meshes
    /\ shading = [defaultSmoothShading |-> TRUE, isNormalVisualizationEnabled |-> FALSE,
                  normalVisualizationLength |-> 0]
    /\ normalArray = NoNormalArray

InitMesh == InitMeshWith({EmptyMesh})

-----------------------------------------------------------------------------
(* initializeGL.  The inputs of a call are what the environment decides:   *)
(* whether ogl_LoadFunctions fails, and which program's initialize()       *)
(* throws, if any, with which exception.                                   *)

\* the greatest number of error texts kept of the output stream
MaxMessages == 2

\* the programs in the order initializeGL initializes them
Programs ==
    <<"nolightingProgram", "solidColorProgram", "minimumLightingProgram",
      "phongShadowLightingProgram">>

ErrorTexts == {"compile error", "link error"}

\* std::runtime_error (or a class derived from it), or an exception of another class
ExceptionClasses == {"std::runtime_error", "other"}

NoException == [class |-> "none", what |-> ""]

StartupInputs ==
    {[loadFailed |-> TRUE, failing |-> 0, exception |-> NoException],
     [loadFailed |-> FALSE, failing |-> 0, exception |-> NoException]}
    \cup {[loadFailed |-> FALSE, failing |-> k, exception |-> [class |-> c, what |-> w]] :
              k \in 1..Len(Programs), c \in ExceptionClasses, w \in ErrorTexts}

\* the programs whose initialize() returned: those before the one that throws
InitializedPrograms(in) ==
    IF in.failing = 0 THEN Programs ELSE SubSeq(Programs, 1, in.failing - 1)

initializeGL_NoCatch(in) ==
    IF in.loadFailed
    THEN [result |-> "false", initialized |-> << >>, written |-> << >>,
          clearRequested |-> FALSE, thrown |-> NoException]
    ELSE IF in.failing # 0
         THEN [result |-> "none", initialized |-> InitializedPrograms(in),
               written |-> << >>, clearRequested |-> FALSE, thrown |-> in.exception]
         ELSE [result |-> "true", initialized |-> Programs, written |-> << >>,
               clearRequested |-> TRUE, thrown |-> NoException]

\* the outcome of a call: the value returned ("none" when the call is left by an
\* exception), the programs initialized, the text written to os(), whether
\* isResourceClearRequested is set, and the exception that leaves the call
initializeGL(in) ==
    IF in.loadFailed
    THEN [result |-> "false", initialized |-> << >>, written |-> << >>,
          clearRequested |-> FALSE, thrown |-> NoException]
    ELSE IF in.failing # 0
         THEN IF in.exception.class = "std::runtime_error"
              THEN [result |-> "false", initialized |-> InitializedPrograms(in),
                    written |-> <<in.exception.what>>, clearRequested |-> FALSE,
                    thrown |-> NoException]
              ELSE [result |-> "none", initialized |-> InitializedPrograms(in),
                    written |-> << >>, clearRequested |-> FALSE, thrown |-> in.exception]
         ELSE [result |-> "true", initialized |-> Programs, written |-> << >>,
               clearRequested |-> TRUE, thrown |-> NoException]

NoStartup ==
    [call |-> 0, input |-> [loadFailed |-> FALSE, failing |-> 0, exception |-> NoException],
     outcome |-> [result |-> "none", initialized |-> << >>, written |-> << >>,
                  clearRequested |-> FALSE, thrown |-> NoException],
     os |-> << >>]

\* a call of GLSLSceneRenderer::initializeGL; startup.call alternates with every call
InitializeGL ==
    \E in \in StartupInputs :
        /\ Len(startup.os) + Len(initializeGL(in).written) <= MaxMessages
        /\ startup' = [call |-> 1 - startup.call,
                       input |-> in,
                       outcome |-> initializeGL(in),
                       os |-> startup.os \o initializeGL(in).written]
        /\ IF initializeGL(in).clearRequested
           THEN requestToClearResources
           ELSE UNCHANGED <<impl, frame, tracked>>

InitStartup == startup = NoStartup

-----------------------------------------------------------------------------
(* LinkKinematicsKitManager: findKinematicsKit, findPresetIK *)

\* kits created over a behaviour (the allocator is unbounded)
MaxKits == 3

\* Link objects: "hand" was replaced by "hand2" when the body was rebuilt, so both
\* have the index 0 and the name HAND; "foot" has the index 1
Links == {"hand", "hand2", "foot"}
NoLink == "null"

\* Link::index()
index(link) == IF link = "foot" THEN 1 ELSE 0

\* Link::name()
linkName(link) == IF link = "foot" THEN "FOOT" ELSE "HAND"

LinkIndices == {index(l) : l \in Links}

\* no kit; a kit is identified by the order of its creation and has its link()
NoKit == [id |-> 0, link |-> NoLink]

\* what a body tells findKinematicsKit: the listing of base link names that
\* defaultIKsetup has for a link name (hasSetup: the mapping is valid; an empty
\* listing: none for that name), the names body->link() finds, the base links
\* CompositeIK::addBaseLink accepts, and findUniqueEndLink()
Setups == {<< >>, <<"WAIST">>, <<"WAIST", "CHEST">>, <<"NONE">>, <<"WAIST", "NONE", "CHEST">>}

Bodies ==
    {[hasSetup |-> h, setup |-> [n \in {"HAND", "FOOT"} |-> IF n = "HAND" THEN a ELSE b],
      linkNames |-> {"WAIST", "CHEST"}, accepted |-> c, uniqueEndLink |-> u] :
        h \in BOOLEAN, a \in Setups, b \in {<< >>, <<"WAIST">>},
        c \in {{"WAIST", "CHEST"}, {"WAIST"}}, u \in {NoLink, "foot"}}

\* the loop of findPresetIK over the base links of a composite IK, from the i-th on:
\* a name without link is passed over, a base link that is refused resets the ik
RECURSIVE addBaseLinks(_, _, _)
addBaseLinks(body, setup, i) ==
    IF i > Len(setup)
    THEN TRUE
    ELSE IF setup[i] \in body.linkNames /\ setup[i] \notin body.accepted
         THEN FALSE
         ELSE addBaseLinks(body, setup, i + 1)

\* whether findPresetIK(targetLink) returns an ik
findPresetIK(body, targetLink) ==
    /\ body.hasSetup
    /\ body.setup[linkName(targetLink)] # << >>
    /\ body.setup[linkName(targetLink)][1] \in body.linkNames
    /\ \/ Len(body.setup[linkName(targetLink)]) = 1
       \/ addBaseLinks(body, body.setup[linkName(targetLink)], 1)

cachedKit_ByIndexOnly(ks, targetLink) == ks.linkIndexToKinematicsKitMap[index(targetLink)]

\* the kit the map has for targetLink->index(), if its link() is targetLink
cachedKit(ks, targetLink) ==
    IF ks.linkIndexToKinematicsKitMap[index(targetLink)].link = targetLink
    THEN ks.linkIndexToKinematicsKitMap[index(targetLink)]
    ELSE NoKit

\* findKinematicsKit for a target link that is not null; ret is the kit returned
findOrCreateKit(ks, targetLink) ==
    IF cachedKit(ks, targetLink) # NoKit
    THEN [ks EXCEPT !.ret = cachedKit(ks, targetLink)]
    ELSE IF findPresetIK(ks.body, targetLink)
         THEN [ks EXCEPT !.numKits = @ + 1,
                         !.linkIndexToKinematicsKitMap[index(targetLink)] =
                             [id |-> ks.numKits + 1, link |-> targetLink],
                         !.ret = [id |-> ks.numKits + 1, link |-> targetLink]]
         ELSE [ks EXCEPT !.ret = NoKit]

\* LinkKinematicsKitManager::findKinematicsKit(targetLink)
findKinematicsKit(ks, targetLink) ==
    IF targetLink = NoLink
    THEN IF ks.body.uniqueEndLink = NoLink
         THEN [ks EXCEPT !.ret = NoKit]
         ELSE findOrCreateKit(ks, ks.body.uniqueEndLink)
    ELSE findOrCreateKit(ks, targetLink)

\* the link a call for targetLink is about
Target(ks, targetLink) == IF targetLink = NoLink THEN ks.body.uniqueEndLink ELSE targetLink

\* Frame editing.  A position edit target asks the manager to edit a frame; the
\* manager shows its dragger at the frame and keeps the two in step through the
\* connections of frameEditConnections.  A handler runs to its end on the GUI
\* thread, with the slots of the signals it emits called inside it.

\* the position edit targets, and frameEditTarget = nullptr
Targets == {1, 2}
NoTarget == 0

\* the positions a user drags the dragger to or gives a target, along one axis
DragPositions == {0, 1}

\* the frame of a link (attitude and translation), as an offset along the axis
LinkFrame(link) == index(link)

NoFrameEdit ==
    [frameEditTarget |-> NoTarget, frameEditLink |-> NoLink, frameEditConnections |-> {},
     displayMode |-> "DisplayNever", dragger |-> 0, positions |-> [t \in Targets |-> 0],
     op |-> "none", log |-> << >>]

\* history: the calls and reads of a handler, in order
logEvent(fe, event) == [fe EXCEPT !.log = Append(@, event)]

\* ScopedConnectionSet: disconnect() drops the connections, block() and unblock()
\* set and clear the blocked state of each, and a signal calls the slot of a
\* connection that is not blocked
disconnect(fe) == [fe EXCEPT !.frameEditConnections = {}]

block(fe) ==
    logEvent([fe EXCEPT !.frameEditConnections = {[c EXCEPT !.blocked = TRUE] : c \in @}],
             "block")

unblock(fe) ==
    logEvent([fe EXCEPT !.frameEditConnections = {[c EXCEPT !.blocked = FALSE] : c \in @}],
             "unblock")

Delivers(fe, signal, source) ==
    [signal |-> signal, source |-> source, blocked |-> FALSE] \in fe.frameEditConnections

\* the connections setFrameEditTarget adds for a target: to its sigPositionChanged,
\* to its sigPositionEditTargetExpired and to sigKinematicStateChanged of the body item
ConnectionsFor(target) ==
    {[signal |-> "sigPositionChanged", source |-> target, blocked |-> FALSE],
     [signal |-> "sigPositionEditTargetExpired", source |-> target, blocked |-> FALSE],
     [signal |-> "sigKinematicStateChanged", source |-> NoTarget, blocked |-> FALSE]}

\* onFrameEditPositionChanged(T): the dragger is put at F * T
onFrameEditPositionChanged(fe, T) ==
    Bind(logEvent(fe, "onFrameEditPositionChanged"),
         LAMBDA s1 :
    Bind(logEvent(s1, "frameEditLink"),
         LAMBDA s2 : [s2 EXCEPT !.dragger = LinkFrame(s2.frameEditLink) + T]))

\* the slot of sigKinematicStateChanged
onKinematicStateChanged(fe) ==
    Bind(logEvent(fe, "frameEditTarget->getPosition"),
         LAMBDA s1 : onFrameEditPositionChanged(s1, s1.positions[s1.frameEditTarget]))

\* setFrameEditTarget(target, link)
setFrameEditTarget(fe, target, link) ==
    Bind([disconnect(fe) EXCEPT !.frameEditTarget = target, !.frameEditLink = link],
         LAMBDA s1 :
             IF target = NoTarget
             THEN [s1 EXCEPT !.displayMode = "DisplayNever"]
             ELSE onFrameEditPositionChanged(
                      [s1 EXCEPT !.displayMode = "DisplayAlways",
                                 !.frameEditConnections = ConnectionsFor(target)],
                      s1.positions[target]))

\* AbstractPositionEditTarget::setPosition(T) of the frame-edit target: the target
\* takes the position and emits sigPositionChanged; the body item may emit
\* sigKinematicStateChanged in turn
setPosition(fe, T, kinematicStateChanges) ==
    Bind(logEvent([fe EXCEPT !.positions[fe.frameEditTarget] = T],
                  "frameEditTarget->setPosition"),
         LAMBDA s1 :
    Bind(IF Delivers(s1, "sigPositionChanged", s1.frameEditTarget)
         THEN onFrameEditPositionChanged(logEvent(s1, "sigPositionChanged"), T)
         ELSE logEvent(s1, "sigPositionChanged"),
         LAMBDA s2 :
             IF ~kinematicStateChanges THEN s2
             ELSE IF Delivers(s2, "sigKinematicStateChanged", NoTarget)
                  THEN onKinematicStateChanged(logEvent(s2, "sigKinematicStateChanged"))
                  ELSE logEvent(s2, "sigKinematicStateChanged")))

onDraggerPositionChanged_NoBlock(fe, kinematicStateChanges) ==
    IF fe.frameEditTarget # NoTarget
    THEN Bind(logEvent(fe, "frameEditLink"),
              LAMBDA s2 : setPosition(s2, s2.dragger - LinkFrame(s2.frameEditLink),
                                      kinematicStateChanges))
    ELSE fe

\* onDraggerPositionChanged(): T = F.inverse() * positionDragger->T()
onDraggerPositionChanged(fe, kinematicStateChanges) ==
    IF fe.frameEditTarget # NoTarget
    THEN Bind(block(fe),
              LAMBDA s1 :
         Bind(logEvent(s1, "frameEditLink"),
              LAMBDA s2 :
         Bind(setPosition(s2, s2.dragger - LinkFrame(s2.frameEditLink),
                          kinematicStateChanges),
              LAMBDA s3 : unblock(s3))))
    ELSE fe

\* the frame-edit state when a handler of the kind `op` starts
Handling(op) == [kits.frameEdit EXCEPT !.op = op, !.log = << >>]

\* startBodyFrameEditing / startEndFrameEditing accept a position edit request
StartFrameEditing ==
    \E target \in Targets, link \in Links :
        kits' = [kits EXCEPT !.frameEdit =
                    setFrameEditTarget(Handling("sigPositionEditRequest"), target, link)]

\* a target emits sigPositionEditTargetExpired
PositionEditTargetExpired ==
    \E target \in Targets :
        /\ Delivers(kits.frameEdit, "sigPositionEditTargetExpired", target)
        /\ kits' = [kits EXCEPT !.frameEdit =
                       setFrameEditTarget(Handling("sigPositionEditTargetExpired"),
                                          NoTarget, NoLink)]

\* a target is given a position from elsewhere and emits sigPositionChanged
PositionChanged ==
    \E target \in Targets, T \in DragPositions :
        \E fe \in {[Handling("sigPositionChanged") EXCEPT !.positions[target] = T]} :
            kits' = [kits EXCEPT !.frameEdit =
                        IF Delivers(fe, "sigPositionChanged", target)
                        THEN onFrameEditPositionChanged(fe, T)
                        ELSE fe]

\* the body item emits sigKinematicStateChanged
KinematicStateChanged ==
    /\ Delivers(kits.frameEdit, "sigKinematicStateChanged", NoTarget)
    /\ kits' = [kits EXCEPT !.frameEdit =
                   onKinematicStateChanged(Handling("sigKinematicStateChanged"))]

\* the user drags the dragger, which emits sigPositionDragged
PositionDragged ==
    \E P \in DragPositions, kinematicStateChanges \in BOOLEAN :
        kits' = [kits EXCEPT !.frameEdit =
                    onDraggerPositionChanged(
                        [Handling("sigPositionDragged") EXCEPT !.dragger = P],
                        kinematicStateChanges)]

\* history: created[l] is the kit last created for the link l; call is the last call
InitKitsIn(bodies) ==
    \E body \in bodies :
        kits = [body |-> body,
                linkIndexToKinematicsKitMap |-> [i \in LinkIndices |-> NoKit],
                numKits |-> 0, ret |-> NoKit,
                created |-> [l \in Links |-> NoKit],
                call |-> [op |-> "none", target |-> NoLink],
                frameEdit |-> NoFrameEdit]

\* the manager of a body without defaultIKsetup, while the renderer is exercised
InitKits ==
    InitKitsIn({b \in Bodies : /\ ~b.hasSetup
                               /\ b.setup = [n \in {"HAND", "FOOT"} |-> << >>]
                               /\ b.accepted = {"WAIST"}
                               /\ b.uniqueEndLink = NoLink})

FindKinematicsKit ==
    \E targetLink \in Links \cup {NoLink} :
        \E ks \in {findKinematicsKit(kits, targetLink)} :
            /\ ks.numKits <= MaxKits
            /\ kits' = [ks EXCEPT !.call = [op |-> "findKinematicsKit",
                                            target |-> Target(kits, targetLink)],
                                  !.created = IF ks.numKits > kits.numKits
                                              THEN [@ EXCEPT ![ks.ret.link] = ks.ret]
                                              ELSE @]
            /\ UNCHANGED <<rendererVars, extensionVars, vertexArrayVars, normalVars, meshVars,
                           startupVars, readerVars>>

-----------------------------------------------------------------------------
(* The console reader of the Python plugin: readlineAdaptor.  startThread   *)
(* queues readlineProc on a pool thread; the GUI thread calls setTerminate. *)
(* do_terminate is a static of the translation unit, rl_done a variable of  *)
(* the readline library; inside readline("") the library calls the event    *)
(* hook while it waits for input.                                           *)

\* requests the reader emits over a behaviour
MaxRequests == 2

\* what readline returns: a line, or NoLine for nullptr (end of input)
NoLine == "nullptr"
InputLines == {"", "help"}

\* static zero-initialization; no thread yet
IdleReader ==
    [pc |-> "notStarted", do_terminate |-> FALSE, rl_done |-> FALSE, comm |-> NoLine,
     requests |-> << >>, terminateCalled |-> FALSE]

\* startThread(): QtConcurrent::run(this, &readlineAdaptor::readlineProc)
startThread ==
    /\ reader.pc = "notStarted"
    /\ reader' = [reader EXCEPT !.pc = "queued"]

\* setTerminate(): do_terminate = true
setTerminate ==
    /\ reader.pc # "notStarted"
    /\ ~reader.terminateCalled
    /\ reader' = [reader EXCEPT !.do_terminate = TRUE, !.terminateCalled = TRUE]

\* readlineProc up to the first call of readline: the hook is installed and
\* do_terminate = false
readlineProc_begin ==
    /\ reader.pc = "queued"
    /\ reader' = [reader EXCEPT !.pc = "readline", !.do_terminate = FALSE, !.rl_done = FALSE]

\* check_state(), the event hook, called by readline while it waits
check_state ==
    /\ reader.pc = "readline"
    /\ reader' = [reader EXCEPT !.rl_done = IF reader.do_terminate THEN TRUE ELSE @]

\* readline returns a line the user entered, or nullptr at the end of the input
readline_input ==
    /\ reader.pc = "readline"
    /\ Len(reader.requests) < MaxRequests
    /\ \E line \in InputLines \cup {NoLine} :
          reader' = [reader EXCEPT !.pc = "returned", !.comm = line]

\* readline returns because rl_done was set: the line read so far
readline_done ==
    /\ reader.pc = "readline"
    /\ reader.rl_done
    /\ \E line \in InputLines :
          reader' = [reader EXCEPT !.pc = "returned", !.comm = line]

\* the message of Q_EMIT sendRequest for the line comm
Request(comm) == IF comm # "" THEN comm ELSE "\n"

\* the condition of the while loop and its body, up to the next call of readline,
\* which clears rl_done
readlineProc_loop ==
    /\ reader.pc = "returned"
    /\ reader' = IF reader.comm # NoLine /\ ~reader.do_terminate
                 THEN [reader EXCEPT !.pc = "readline", !.rl_done = FALSE,
                                     !.requests = Append(@, Request(reader.comm)),
                                     !.comm = NoLine]
                 ELSE [reader EXCEPT !.pc = "finished"]

InitReader == reader = IdleReader

-----------------------------------------------------------------------------
(* Specifications *)

vars == <<rendererVars, otherVars>>

Init == InitRenderer /\ InitExtensions /\ InitVertexArray /\ InitNormals /\ InitMesh /\ InitStartup /\ InitReader /\ InitKits

Next == NextRenderer

Spec == Init /\ [][Next]_vars

-----------------------------------------------------------------------------
(* The picking specification: the same calls over scene graphs with every  *)
(* pair of group kinds for nodes 1 and 2, picked at every kind of pixel.   *)

PickScenes ==
    {sc \in Scenes(GroupKinds, GroupKinds, {"SgShape", "SgPointSet"}) :
        ValidScene(sc) /\ sc.kind[4] = "SgShape"}

Pixels == {{}, {3}, {4}, {5}, {3, 4}}

PickAtAnyPixel == DoPickIn(Pixels)

InitPick == InitWith(PickScenes) /\ InitExtensions /\ InitVertexArray /\ InitNormals /\ InitMesh /\ InitStartup /\ InitReader /\ InitKits

NextPick == DoRender \/ PickAtAnyPixel

SpecPick == InitPick /\ [][NextPick]_vars

\* the renderer at rest, while the registries or the encoder are exercised
IdleRenderer == InitWith({sc \in CacheScenes : sc.kind[1] = "SgGroup" /\ sc.kind[2] = "SgGroup"
                                                /\ sc.transparent = {}})

notExtensionVars == <<rendererVars, vertexArrayVars, normalVars, meshVars, startupVars, kitVars, readerVars>>

InitAtRest == IdleRenderer /\ InitExtensions /\ InitVertexArray /\ InitNormals /\ InitMesh /\ InitStartup /\ InitReader /\ InitKits

NextExt ==
    \/ \E t \in Threads : GLSLSceneRenderer_new(t) /\ UNCHANGED notExtensionVars
    \/ \E t \in Threads : GLSLSceneRenderer_delete(t) /\ UNCHANGED notExtensionVars
    \/ \E t \in Threads : addExtension_call(t) /\ UNCHANGED notExtensionVars
    \/ \E t \in Threads : lock_guard(t) /\ UNCHANGED notExtensionVars
    \/ \E t \in Threads : beginAccess(t) /\ UNCHANGED notExtensionVars
    \/ \E t \in Threads : initialize_insert(t) /\ UNCHANGED notExtensionVars
    \/ \E t \in Threads : destructor_erase(t) /\ UNCHANGED notExtensionVars
    \/ \E t \in Threads : destructor_delete_impl(t) /\ UNCHANGED notExtensionVars
    \/ \E t \in Threads : addExtension_push_back(t) /\ UNCHANGED notExtensionVars
    \/ \E t \in Threads : applyExtensions(t) /\ UNCHANGED notExtensionVars
    \/ \E t \in Threads : unlock_guard(t) /\ UNCHANGED notExtensionVars
    \/ \E t \in Threads : addExtension_visit(t) /\ UNCHANGED notExtensionVars
    \/ \E t \in Threads : addExtension_return(t) /\ UNCHANGED notExtensionVars
    \/ applyNewExtensions /\ UNCHANGED notExtensionVars

SpecExt == InitAtRest /\ [][NextExt]_vars

notVertexArrayVars == <<rendererVars, extensionVars, normalVars, meshVars, startupVars, kitVars, readerVars>>

NextVA ==
    \/ \E t \in Threads : beginRoutine(t) /\ UNCHANGED notVertexArrayVars
    \/ \E t \in Threads : LockVertexArrayAPI(t) /\ UNCHANGED notVertexArrayVars
    \/ \E t \in Threads : UnlockVertexArrayAPI(t) /\ UNCHANGED notVertexArrayVars
    \/ \E t \in Threads : enterGLCall(t) /\ UNCHANGED notVertexArrayVars
    \/ \E t \in Threads : returnFromGLCall(t) /\ UNCHANGED notVertexArrayVars

SpecVA == InitAtRest /\ [][NextVA]_vars

notNormalVars == <<rendererVars, extensionVars, vertexArrayVars, meshVars, startupVars, kitVars, readerVars>>

NextNormal ==
    \/ NormalArrayWrapper_append /\ UNCHANGED notNormalVars
    \/ NormalArrayWrapper_get /\ UNCHANGED notNormalVars

SpecNormal == InitAtRest /\ [][NextNormal]_vars

notMeshVars == <<scene, gl, heap, extensionVars, vertexArrayVars, normalVars, startupVars, kitVars, readerVars>>

NextMesh ==
    \/ writeMeshNormalsSub /\ UNCHANGED <<impl, frame, tracked, notMeshVars>>
    \/ setDefaultSmoothShading /\ UNCHANGED notMeshVars
    \/ showNormalVectors /\ UNCHANGED notMeshVars

InitMeshes ==
    IdleRenderer /\ InitExtensions /\ InitVertexArray /\ InitNormals /\ InitMeshWith(Meshes)
    /\ InitStartup /\ InitReader /\ InitKits

SpecMesh == InitMeshes /\ [][NextMesh]_vars

notStartupVars == <<scene, gl, heap, extensionVars, vertexArrayVars, normalVars, meshVars, kitVars, readerVars>>

\* startup, followed by frames and clear requests
NextStartup ==
    \/ InitializeGL /\ UNCHANGED notStartupVars
    \/ DoRender
    \/ RequestToClearResources

SpecStartup == InitAtRest /\ [][NextStartup]_vars

-----------------------------------------------------------------------------
(* The texture specification: frames over scene graphs whose shapes have   *)
(* textures and whose leaves may lack a mesh, vertices or lines.           *)

\* the geometries a leaf of kind k can have
GeometriesOf(k) ==
    CASE k = "SgShape" -> {"ok", "noMesh", "noVertices"}
      [] k = "SgPointSet" -> {"ok", "noVertices"}
      [] k = "SgLineSet" -> {"ok", "noVertices", "noLines"}

\* shape 3 has a texture or one of the leaves is incomplete
TexScenes ==
    {[kind |-> <<"SgGroup", "SgGroup", "SgShape", "SgLineSet", "SgPointSet">>,
      transparent |-> {}, switchOn |-> TRUE, camera |-> TRUE, lights |-> Lights, headLight |-> DefaultHeadLight, solid |-> Leaves,
      geometry |-> [n \in Leaves |-> IF n = d THEN g ELSE "ok"],
      image |-> [n \in Leaves |-> IF n = 3 THEN i ELSE NoTexture],
      imageSize |-> [n \in Leaves |-> DefaultSize]] :
        d \in Leaves, g \in Geometries, i \in {NoTexture, EmptyImage} \cup ChannelCounts}

ValidGeometry(sc) ==
    /\ \A n \in Leaves : sc.geometry[n] \in GeometriesOf(sc.kind[n])
    /\ sc.image[3] = NoTexture \/ \A n \in Leaves : sc.geometry[n] = "ok"

InitTex ==
    /\ InitWith({sc \in TexScenes : ValidGeometry(sc)})
    /\ InitExtensions /\ InitVertexArray /\ InitNormals /\ InitMesh /\ InitStartup /\ InitReader /\ InitKits

\* a doPick call whose unprojection succeeds; how the pick is resolved has no
\* effect on the resources
PickInTex == DoPickWith({{4}}, {TRUE}, {[hi |-> 0, lo |-> 0]})

NextTex ==
    \/ DoRender
    \/ PickInTex
    \/ RequestToClearResources
    \/ EnableUnusedResourceCheck
    \/ UpdateImage

SpecTex == InitTex /\ [][NextTex]_vars

-----------------------------------------------------------------------------
(* The lighting specification: frames under every lighting mode, over every *)
(* list of three lights and over every pair of group kinds.                *)

\* a light that casts a shadow and is registered; one that is switched off; one
\* without a shadow camera; one that setLight rejects
LightKinds ==
    {[on |-> TRUE, shadowCamera |-> TRUE, accepted |-> TRUE],
     [on |-> FALSE, shadowCamera |-> TRUE, accepted |-> TRUE],
     [on |-> TRUE, shadowCamera |-> FALSE, accepted |-> TRUE],
     [on |-> TRUE, shadowCamera |-> TRUE, accepted |-> FALSE]}

HeadLights ==
    {DefaultHeadLight, [on |-> FALSE, accepted |-> TRUE], [on |-> TRUE, accepted |-> FALSE]}

LightScenes ==
    {sc \in Scenes(GroupKinds, GroupKinds, {"SgPointSet"}) :
        sc.transparent \subseteq {3} /\ sc.kind[4] = "SgLineSet"}
    \cup
    {[kind |-> <<"SgGroup", "SgGroup", "SgShape", "SgLineSet", "SgPointSet">>,
      transparent |-> {}, switchOn |-> TRUE, camera |-> TRUE,
      lights |-> <<a, b, c>>, headLight |-> h, solid |-> Leaves,
      geometry |-> [n \in Leaves |-> "ok"], image |-> [n \in Leaves |-> NoTexture],
      imageSize |-> [n \in Leaves |-> DefaultSize]] :
        a \in LightKinds, b \in LightKinds, c \in LightKinds, h \in HeadLights}

\* the sets of light indices enableShadowOfLight has built; the light 3 is in no
\* list of three lights
ShadowSets == {{}, {0, 1, 2, 3}}

LightConfigs == LightingModes \X ShadowSets

InitLight ==
    /\ InitIn({sc \in LightScenes : ValidScene(sc)}, LightConfigs)
    /\ InitExtensions /\ InitVertexArray /\ InitNormals /\ InitMesh /\ InitStartup /\ InitReader /\ InitKits

PickInLight == DoPickWith({{3, 4}}, {TRUE}, {[hi |-> 0, lo |-> 0]})

NextLight == DoRender \/ PickInLight

SpecLight == InitLight /\ [][NextLight]_vars

-----------------------------------------------------------------------------
(* Properties of the resource cache *)

IsFrame(f) == f.op \in {"doRender", "doPick"}

\* C1: while the unused-resource check stays enabled and no clear is requested, an
\* object that every doRender frame looks up gets, from every lookup in any doRender
\* or doPick frame, the resource its first lookup created, and no second resource
\* is created for it.
C1_StableHandle ==
    \A i \in 1..Len(frame.lookups) :
        LET e == frame.lookups[i]
        IN  tracked[e.obj] # NoResource =>
               /\ e.res = tracked[e.obj]
               /\ e.created => \A j \in 1..(i - 1) : frame.lookups[j].obj # e.obj

\* a doRender frame, after a doPick, finds without creating it the resource that
\* an earlier frame created
C1_Witness ==
    /\ frame.op = "doRender"
    /\ impl.pickingNodePathList # << >>
    /\ \E i \in 1..Len(frame.lookups) :
          /\ ~frame.lookups[i].created
          /\ \A j \in 1..Len(frame.lookups) :
                frame.lookups[j].obj = frame.lookups[i].obj => ~frame.lookups[j].created
          /\ tracked[frame.lookups[i].obj] = frame.lookups[i].res

\* C2: with the check enabled, an object that has a cached resource and is not
\* looked up during one complete doRender frame is in neither generation map after
\* that frame; and a lookup of an object that is in neither map creates a resource.
C2_BoundedDelayEviction ==
    /\ (frame.op = "doRender" /\ frame.before.check) =>
           \A o \in frame.before.cached \ LookedUp(frame.lookups) : o \notin Cached(impl)
    /\ IsFrame(frame) =>
           \A o \in LookedUp(frame.lookups) \ frame.before.cached :
               /\ FirstLookup(frame.lookups, o).created
               /\ FirstLookup(frame.lookups, o).res <= heap[o]

\* a doRender frame with no clear pending that did not look up a cached object
C2_Witness ==
    /\ frame.op = "doRender"
    /\ frame.before.check /\ ~frame.before.clearRequested
    /\ frame.before.cached \ LookedUp(frame.lookups) # {}

-----------------------------------------------------------------------------
(* Properties of picking and of the drawing order *)

Last(path) == path[Len(path)]

\* the ID whose colour setPickColor wrote is the one read back at the pixel
PixelId == gl.fbColor[1] + 256 * gl.fbColor[2] + 65536 * gl.fbColor[3]

Drawn(f, a) == \E i \in 1..Len(f.draws) : f.draws[i].node = a

\* C4: after a picking pass that assigned IDs 1..N, doPick reports no pick when the
\* ID read back at the pixel is 0 or greater than N, and for every ID k in 1..N with
\* a successful unproject it returns true with the node path recorded for ID k.
C4_PickResolvesRecordedPath ==
    frame.op = "doPick" =>
        LET k == PixelId
            N == Len(impl.pickingNodePathList)
        IN  /\ (k = 0 \/ k > N) => ~frame.found
            /\ (1 <= k /\ k <= N /\ frame.unprojectOk) =>
                   /\ frame.found
                   /\ impl.pickedNodePath = impl.pickingNodePathList[k]

\* C5: in every doRender frame, every draw of a transparent shape comes after every
\* draw of an opaque shape of the main pass, post-rendering outline draws included.
C5_TransparentAfterOpaque ==
    frame.op = "doRender" =>
        \A i, j \in 1..Len(frame.draws) :
            (/\ frame.draws[i].kind = "SgShape" /\ frame.draws[i].transparent
             /\ frame.draws[j].kind = "SgShape" /\ ~frame.draws[j].transparent
             /\ frame.draws[j].pass # "shadow") => j < i

\* shape 3 is transparent and precedes the opaque shape 4 in the scene graph, both
\* inside an outline group, and 4 is drawn by a post-rendering function before 3
C5_Witness ==
    /\ frame.op = "doRender"
    /\ \E i, j \in 1..Len(frame.draws) :
          /\ frame.draws[i].node = 3 /\ frame.draws[i].transparent
          /\ frame.draws[j].node = 4 /\ frame.draws[j].kind = "SgShape"
          /\ frame.draws[j].pass = "post"
          /\ j < i

\* C6: two doPick calls at the same pixel with nothing changed in between assign the
\* same IDs to the same paths and return the same flag and path; when only object A
\* covers the pixel, the call returns a path ending in A and never reports no pick.
C6_PickDeterministic ==
    [][ frame'.op = "doPick" =>
          /\ (/\ frame.op = "doPick"
              /\ frame'.covering = frame.covering
              /\ frame'.unprojectOk = frame.unprojectOk) =>
                 /\ impl'.pickingNodePathList = impl.pickingNodePathList
                 /\ frame'.found = frame.found
                 /\ impl'.pickedNodePath = impl.pickedNodePath
          /\ \A a \in Leaves :
                 (frame'.covering = {a} /\ Drawn(frame', a) /\ frame'.unprojectOk) =>
                     /\ frame'.found
                     /\ Last(impl'.pickedNodePath) = a
      ]_vars

\* the repeatability half of C6 alone
PickRepeatable ==
    [][ (/\ frame'.op = "doPick" /\ frame.op = "doPick"
         /\ frame'.covering = frame.covering
         /\ frame'.unprojectOk = frame.unprojectOk) =>
            /\ impl'.pickingNodePathList = impl.pickingNodePathList
            /\ frame'.found = frame.found
            /\ impl'.pickedNodePath = impl.pickedNodePath
      ]_vars

IdOf(a) == CHOOSE k \in 1..Len(impl.pickingNodePathList) : Last(impl.pickingNodePathList[k]) = a

TransparentShapes == {a \in Leaves : Kind(a) = "SgShape" /\ IsTransparent(a)}

\* a transparent shape that the picking pass drew got an ID with its path and was
\* drawn from the deferred list in its own ID colour, without blending
TransparentShapeDrawnForPicking ==
    frame.op = "doPick" =>
        \A a \in TransparentShapes :
            Drawn(frame, a) =>
                /\ \E k \in 1..Len(impl.pickingNodePathList) : Last(impl.pickingNodePathList[k]) = a
                /\ \A i \in 1..Len(frame.draws) :
                      frame.draws[i].node = a =>
                          /\ frame.draws[i].picking
                          /\ frame.draws[i].pass = "transparent"
                          /\ frame.draws[i].color = PickColor(IdOf(a))
                          /\ ~frame.draws[i].blend

\* C7: during doPick a transparent shape is still assigned a pick ID with its node
\* path at traversal time and still drawn with its own ID colour from the deferred
\* list, without blending, so a pixel covered only by that shape resolves to its path.
C7_TransparentShapePickable ==
    /\ TransparentShapeDrawnForPicking
    /\ frame.op = "doPick" =>
           \A a \in TransparentShapes :
               (Drawn(frame, a) /\ frame.covering = {a} /\ frame.unprojectOk) =>
                   /\ frame.found
                   /\ impl.pickedNodePath = impl.pickingNodePathList[IdOf(a)]

\* what the code does guarantee: every ID from 2 to N resolves to its recorded path
PickResolvesFromSecondId ==
    frame.op = "doPick" =>
        LET k == PixelId
            N == Len(impl.pickingNodePathList)
        IN  /\ (k = 0 \/ k = 1 \/ k > N) => ~frame.found
            /\ (2 <= k /\ k <= N /\ frame.unprojectOk) =>
                   /\ frame.found
                   /\ impl.pickedNodePath = impl.pickingNodePathList[k]

-----------------------------------------------------------------------------
(* Properties of the locks *)

AccessingRenderers == {t \in Threads : extThreads[t].accessing # "none"}

\* C8: every read and every write of the set of live renderers happens while the
\* accessing thread holds extensionMutex, and no two threads access the set at the
\* same time.
C8_RegistryAccessUnderMutex ==
    /\ \A t \in AccessingRenderers : extensionMutex = t
    /\ Cardinality(AccessingRenderers) <= 1

\* what the code does guarantee: the writes of the set are made under the mutex
RegistryWritesUnderMutex ==
    \A t \in Threads : extThreads[t].accessing = "write" => extensionMutex = t

InVertexArrayCalls == {t \in Threads : InVertexArrayCall(t)}

\* C9: every glBindVertexArray and glVertexAttribPointer call of any renderer is
\* executed while its thread holds vertexArrayMutex, so no two rendering threads
\* are inside such a call at the same time.
C9_VertexArrayCallsUnderMutex ==
    /\ \A t \in InVertexArrayCalls : vertexArrayMutex = t
    /\ Cardinality(InVertexArrayCalls) <= 1

\* what the code does guarantee: the attribute-pointer calls are made under the mutex
AttribPointerUnderMutex ==
    \A t \in Threads :
        (vaThreads[t].inCall /\ Head(vaThreads[t].calls) = "glVertexAttribPointer") =>
            vertexArrayMutex = t

-----------------------------------------------------------------------------
(* Properties of the packed normals *)

\* |c - d| <= 1/511, for c = s * m / 2^e and d = num / den with den 511 or 512;
\* both sides are scaled by 511 * 512
WithinTolerance(c, d) ==
    LET D == IF d.den = 512 THEN d.num * 511 ELSE d.num * 512
        s == IF c.neg THEN -1 ELSE 1
        t == 511 * c.m
        r == 2^(IF c.e > 9 THEN c.e - 9 ELSE 0)
        floorX == t \div r
        ceilX == (t + r - 1) \div r
    IN  IF c.e <= 9
        THEN LET C == s * t * 2^(9 - c.e) IN C - D <= 512 /\ D - C <= 512
        ELSE /\ (IF c.neg THEN -floorX ELSE ceilX) <= D + 512
             /\ (IF c.neg THEN -ceilX ELSE floorX) >= D - 512

\* C10: for every component c in [-1, 1], get decodes the field that append produced
\* for c to a value within 1/511 of c, for the x, y and z fields independently: the
\* decoded value of a field depends on its own component only.
C10_PackedNormalRoundTrip ==
    decodedNormal.index >= 0 =>
        \A a \in 1..3 :
            LET c == normalSources[decodedNormal.index + 1][a]
            IN  /\ WithinTolerance(c, decodedNormal.v[a])
                /\ decodedNormal.v[a] = getComponent(PackedField(c))

\* what the code does guarantee: the fields are independent, and the round trip is
\* within 1/511 for c >= 0 and for c <= -1 / 2^24
PackedNormalRoundTripAboveNoise ==
    decodedNormal.index >= 0 =>
        \A a \in 1..3 :
            LET c == normalSources[decodedNormal.index + 1][a]
            IN  /\ (~c.neg \/ c.e <= 24) => WithinTolerance(c, decodedNormal.v[a])
                /\ decodedNormal.v[a] = getComponent(PackedField(c))

-----------------------------------------------------------------------------
(* Properties of the mesh normals *)

\* vertex k (0, 1 or 2) of triangle i of the mesh, read from its arrays
Corner(i, k) == mesh.vertices[mesh.triangleVertices[3 * i + k + 1] + 1]

\* C11: with smooth shading off, writeMeshNormalsSub appends three normals per
\* triangle, in the order of the triangles, and the three normals of a triangle
\* are normalize((P1 - P0) x (P2 - P0)) of the triangle's own vertices P0, P1, P2
C11_FlatNormalPerTriangle ==
    (normalArray.called /\ ~normalArray.smooth) =>
        /\ Len(normalArray.array) = Len(mesh.triangleVertices)
        /\ \A i \in 0..((Len(mesh.triangleVertices) \div 3) - 1) :
               \A j \in 1..3 :
                   normalArray.array[3 * i + j] =
                       normalized(cross(Minus(Corner(i, 1), Corner(i, 0)),
                                        Minus(Corner(i, 2), Corner(i, 0))))

\* a mesh of two triangles with different face normals was written with flat shading
C11_Witness ==
    /\ normalArray.called /\ ~normalArray.smooth
    /\ Len(mesh.triangleVertices) = 6
    /\ normalArray.array[1] # normalArray.array[4]
    /\ normalArray.array[4] # <<0, 0, 0>>

-----------------------------------------------------------------------------
(* Properties of initializeGL *)

\* C12: initializeGL returns false when the GL functions fail to load or when
\* the initialization of a program throws std::runtime_error; in the latter case
\* the error text is written to os(), the programs after the failing one are not
\* initialized, no clear request is set and no exception leaves the call; it
\* returns true only when all four programs were initialized
C12_InitializeGLFailure ==
    [][startup'.call # startup.call =>
          /\ startup'.input.loadFailed =>
                 /\ startup'.outcome.result = "false"
                 /\ startup'.outcome.thrown = NoException
          /\ (/\ ~startup'.input.loadFailed
              /\ startup'.input.failing # 0
              /\ startup'.input.exception.class = "std::runtime_error") =>
                 /\ startup'.outcome.result = "false"
                 /\ startup'.os = Append(startup.os, startup'.input.exception.what)
                 /\ startup'.outcome.initialized =
                        SubSeq(Programs, 1, startup'.input.failing - 1)
                 /\ impl'.isResourceClearRequested = impl.isResourceClearRequested
                 /\ startup'.outcome.thrown = NoException
          /\ startup'.outcome.result = "true" =>
                 /\ startup'.outcome.initialized = Programs
                 /\ ~startup'.input.loadFailed /\ startup'.input.failing = 0]_vars

\* the third program threw std::runtime_error while no clear request was pending
C12_Witness ==
    /\ startup.input.failing = 3
    /\ startup.input.exception.class = "std::runtime_error"
    /\ startup.outcome.result = "false"
    /\ startup.os # << >>
    /\ ~impl.isResourceClearRequested

-----------------------------------------------------------------------------
(* Properties of textures and of the guards of the leaf handlers *)

\* the draws of `node` under the phong program in the frame f
PhongDraws(f, node) ==
    {j \in 1..Len(f.draws) : /\ f.draws[j].node = node
                             /\ f.draws[j].program = "phongShadowLightingProgram"}

\* C13: in a doRender frame, a renderTexture call for an image whose channel count
\* is outside 1..4 returns false, the shape is drawn in that frame under the phong
\* program with texturing disabled, and the frame reaches endRendering
C13_TextureLoadFailure ==
    frame.op = "doRender" =>
        \A i \in 1..Len(frame.textureCalls) :
            frame.textureCalls[i].numComponents \notin 1..4 =>
                /\ ~frame.textureCalls[i].ret
                /\ PhongDraws(frame, frame.textureCalls[i].shape) # {}
                /\ \A j \in PhongDraws(frame, frame.textureCalls[i].shape) :
                       ~frame.draws[j].texture
                /\ frame.ended

\* a frame whose shape 3 has an image of five channels, after which the cache has a
\* resource for the image
C13_Witness ==
    /\ frame.op = "doRender"
    /\ \E i \in 1..Len(frame.textureCalls) :
           /\ frame.textureCalls[i].shape = 3
           /\ frame.textureCalls[i].numComponents = 5
    /\ PhongDraws(frame, 3) # {}
    /\ Image(3) \in Cached(impl)

\* the guard of the handler of leaf n makes it return at once
Skipped(n) ==
    CASE Kind(n) = "SgShape" -> ~(HasMesh(n) /\ hasVertices(n))
      [] Kind(n) = "SgPointSet" -> ~hasVertices(n)
      [] Kind(n) = "SgLineSet" -> ~hasVertices(n) \/ numLines(n) <= 0

\* C14: in a frame, the handler of a shape without mesh or without vertices, of a
\* point set without vertices, or of a line set without vertices or without lines
\* draws nothing, looks up or creates no resource (for the leaf or for its image),
\* assigns no pick ID and makes no pushProgram or popProgram call
C14_GuardedLeavesAreSkipped ==
    IsFrame(frame) =>
        \A n \in Leaves :
            Skipped(n) =>
                /\ \A j \in 1..Len(frame.draws) : frame.draws[j].node # n
                /\ \A j \in 1..Len(frame.lookups) : frame.lookups[j].obj \notin {n, Image(n)}
                /\ \A j \in 1..Len(frame.pickCalls) : frame.pickCalls[j].node # n
                /\ \A j \in 1..Len(frame.programCalls) : frame.programCalls[j].node # n

\* a picking pass over a scene whose line set has vertices but no lines, in which
\* the other leaves were drawn with pick IDs
C14_Witness ==
    /\ frame.op = "doPick"
    /\ scene.geometry[4] = "noLines"
    /\ \E j \in 1..Len(frame.draws) : frame.draws[j].node = 3
    /\ \E j \in 1..Len(frame.pickCalls) : frame.pickCalls[j].id > 0

-----------------------------------------------------------------------------
(* Properties of the generations and of the GPU handles *)

\* C15: after a doRender frame in which the unused-resource check was active, the
\* outgoing current map is empty and the next map holds exactly the objects and
\* images looked up in the frame, each with the resource the lookup found or created
C15_NextGenerationIsWhatWasLookedUp ==
    (frame.op = "doRender" /\ impl.isCheckingUnusedResources) =>
        /\ currentResourceMap(impl) = EmptyMap
        /\ \A o \in Objects :
               nextResourceMap(impl)[o] # NoResource <=> o \in LookedUp(frame.lookups)
        /\ \A j \in 1..Len(frame.lookups) :
               nextResourceMap(impl)[frame.lookups[j].obj] = frame.lookups[j].res

\* a checked frame that looked up meshes and found the texture resource of an
\* earlier frame, which it carried into the next map
C15_Witness ==
    /\ frame.op = "doRender" /\ impl.isCheckingUnusedResources
    /\ {3, 5} \subseteq LookedUp(frame.lookups)
    /\ \E j \in 1..Len(frame.lookups) :
           /\ frame.lookups[j].obj = Image(3)
           /\ ~frame.lookups[j].created
           /\ nextResourceMap(impl)[Image(3)] = frame.lookups[j].res

\* the handles in `kinds` that are allocated belong to resources a map refers to
HandlesOfCachedResources(kinds) ==
    \A h \in gl.handles :
        h.kind \in kinds => <<h.key, h.gen>> \in Referenced(impl.resourceMaps)

\* the vertex arrays, the vertex buffers and the samplers of dropped resources are
\* released
VertexAndSamplerHandlesReleased == HandlesOfCachedResources({"vao", "vbo", "sampler"})

\* C16: no GPU handle generated for a resource stays allocated once the cache has
\* dropped the resource: every allocated vertex array, buffer, texture and sampler
\* belongs to a resource that one of the two maps refers to
C16_DroppedResourcesReleaseHandles == HandlesOfCachedResources(HandleKinds)

-----------------------------------------------------------------------------
(* Properties of the pick IDs and of the node paths *)

IsPushPickId(c) == c.call = "pushPickId"

\* the pushPickId calls of the frame f, in the order they were made
PushCalls(f) == SelectSeq(f.pickCalls, IsPushPickId)

\* C17: in a picking pass the k-th pushPickId call returns k, and the pass starts
\* from an empty path list and an empty path stack: after it the list has one path
\* per call, the k-th ending in the node of the k-th call, the stack is empty, and a
\* path that doPick returns is one of this list
C17_PickIdsCountFromOne ==
    frame.op = "doPick" =>
        /\ \A k \in 1..Len(PushCalls(frame)) : PushCalls(frame)[k].id = k
        /\ Len(impl.pickingNodePathList) = Len(PushCalls(frame))
        /\ \A k \in 1..Len(PushCalls(frame)) :
               /\ impl.pickingNodePathList[k] # << >>
               /\ impl.pickingNodePathList[k][Len(impl.pickingNodePathList[k])] =
                      PushCalls(frame)[k].node
        /\ impl.currentNodePath = << >>
        /\ frame.found =>
               \E k \in 1..Len(impl.pickingNodePathList) :
                   impl.pickedNodePath = impl.pickingNodePathList[k]

\* a picking pass that assigned five IDs and returned a path
C17_Witness ==
    /\ frame.op = "doPick"
    /\ Len(PushCalls(frame)) = 5
    /\ frame.found

\* the nodes from the scene root down to node n
AncestorPath(n) ==
    CASE n = 1 -> <<1>>
      [] n = 2 -> <<1, 2>>
      [] n \in {3, 4} -> <<1, 2, n>>
      [] n = 5 -> <<1, 5>>

\* every path the picking pass recorded is the ancestor path of its last node
RecordedPathsAreAncestorPaths ==
    \A k \in 1..Len(impl.pickingNodePathList) :
        impl.pickingNodePathList[k] =
            AncestorPath(impl.pickingNodePathList[k][Len(impl.pickingNodePathList[k])])

\* the recorded paths are full when no node is an SgSimplifiedRenderingGroup
FullPathsWithoutSimplifiedRenderingGroup ==
    (frame.op = "doPick" /\ \A n \in Nodes : Kind(n) # "SgSimplifiedRenderingGroup") =>
        RecordedPathsAreAncestorPaths

\* C18: after a picking pass, the path recorded for an ID is the sequence of the
\* nodes from the scene root down to the node the ID was assigned to, whatever the
\* kinds of the group nodes above it
C18_RecordedPathIsFullAncestorPath ==
    frame.op = "doPick" => RecordedPathsAreAncestorPaths

\* C19: a pushPickId call made while isPicking is false returns 0 and leaves the
\* path stack, the path list and the solid colour as they were, and so does a
\* popPickId call made while isPicking is false
C19_NoPickStateOutsidePicking ==
    \A j \in 1..Len(frame.pickCalls) :
        ~frame.pickCalls[j].picking =>
            /\ frame.pickCalls[j].id = 0
            /\ ~frame.pickCalls[j].changed

\* a doRender frame, after a picking pass that left paths in the list, in which
\* pushPickId and popPickId were called for groups, shapes and a point set
C19_Witness ==
    /\ frame.op = "doRender"
    /\ impl.pickingNodePathList # << >>
    /\ Len(PushCalls(frame)) >= 5
    /\ \E j \in 1..Len(frame.pickCalls) : frame.pickCalls[j].call = "popPickId"
    /\ Kind(5) = "SgPointSet"
    /\ \E j \in 1..Len(frame.pickCalls) : frame.pickCalls[j].node = 5

-----------------------------------------------------------------------------
(* Properties of the transparent pass *)

IsTransparentPassDraw(d) == d.pass = "transparent"

\* the draws of the transparent pass of the frame f, in the order they were made
TransparentPassDraws(f) == SelectSeq(f.draws, IsTransparentPassDraw)

\* C20: in a frame, renderTransparentObjects runs exactly when a draw was deferred;
\* it makes the deferred draws in the order in which they were deferred, and after
\* it blending is disabled, depth writes are enabled and the deferred list is empty
C20_TransparentPassInDeferralOrder ==
    IsFrame(frame) =>
        /\ frame.transparentPasses = (IF frame.deferrals # << >> THEN 1 ELSE 0)
        /\ Len(TransparentPassDraws(frame)) = Len(frame.deferrals)
        /\ \A k \in 1..Len(frame.deferrals) :
               TransparentPassDraws(frame)[k].node = frame.deferrals[k]
        /\ ~gl.blend /\ gl.depthMask
        /\ impl.transparentRenderingFunctions = << >>

\* a doRender frame that deferred two shapes and drew them blended
C20_Witness ==
    /\ frame.op = "doRender"
    /\ frame.deferrals = <<3, 5>>
    /\ frame.transparentPasses = 1
    /\ TransparentPassDraws(frame)[1].blend

-----------------------------------------------------------------------------
(* Properties of the calls between frames *)

\* C30: an enableUnusedResourceCheck call made after a frame destroys none of the
\* resources that frame looked up: each of them is still in one of the two maps,
\* which it must be for the next frame's lookup to return the same resource object
C30_DisablingCheckKeepsResources ==
    [][(/\ IsFrame(frame)
        /\ frame'.op = "enableUnusedResourceCheck") =>
           \A j \in 1..Len(frame.lookups) :
               /\ <<frame.lookups[j].obj, frame.lookups[j].res>> \notin frame'.dropped
               /\ <<frame.lookups[j].obj, frame.lookups[j].res>>
                      \in Referenced(impl'.resourceMaps)]_vars

-----------------------------------------------------------------------------
(* Properties of the phases of a frame *)

PhaseRank(name) ==
    CASE name = "beginRendering" -> 1
      [] name = "shadowMap" -> 2
      [] name = "main" -> 3
      [] name = "post" -> 4
      [] name = "transparent" -> 5
      [] name = "endRendering" -> 6

\* how often the frame f entered the phase `name`
PhaseCount(f, name) == Cardinality({i \in 1..Len(f.phases) : f.phases[i].name = name})

\* C21: a frame enters its phases in the order beginRendering, shadow-map passes,
\* main traversal, post-rendering functions, transparent pass, endRendering; only
\* the shadow-map pass is entered more than once; a doRender frame enters the main
\* traversal and the post-rendering functions; and every frame begins with the one
\* beginRendering and ends with the one endRendering
C21_PhasesInFixedOrder ==
    IsFrame(frame) =>
        /\ frame.phases # << >>
        /\ frame.phases[1].name = "beginRendering"
        /\ frame.phases[Len(frame.phases)].name = "endRendering"
        /\ PhaseCount(frame, "beginRendering") = 1
        /\ PhaseCount(frame, "endRendering") = 1
        /\ \A i, j \in 1..Len(frame.phases) :
               i < j =>
                   \/ PhaseRank(frame.phases[i].name) < PhaseRank(frame.phases[j].name)
                   \/ /\ frame.phases[i].name = "shadowMap"
                      /\ frame.phases[j].name = "shadowMap"
        /\ frame.op = "doRender" =>
               /\ PhaseCount(frame, "main") = 1
               /\ PhaseCount(frame, "post") = 1
        /\ frame.ended

\* a doRender frame with a shadow-map pass, a post-rendering function that drew and
\* a transparent pass
C21_Witness ==
    /\ frame.op = "doRender"
    /\ PhaseCount(frame, "shadowMap") >= 1
    /\ PhaseCount(frame, "transparent") = 1
    /\ \E j \in 1..Len(frame.draws) : frame.draws[j].pass = "post"

-----------------------------------------------------------------------------
(* The culling specification: three shapes of every solidity, under every   *)
(* back-face-culling mode, which changes between frames.                  *)

CullScenes ==
    {[kind |-> <<"SgGroup", g, "SgShape", "SgShape", "SgShape">>,
      transparent |-> t, switchOn |-> TRUE, camera |-> TRUE,
      lights |-> Lights, headLight |-> DefaultHeadLight, solid |-> solid,
      geometry |-> [n \in Leaves |-> "ok"], image |-> [n \in Leaves |-> NoTexture],
      imageSize |-> [n \in Leaves |-> DefaultSize]] :
        g \in {"SgGroup", "SgOutlineGroup"}, t \in {{}, {4}}, solid \in SUBSET Leaves}

\* isCullFaceEnabled is not initialised by the constructor
InitCull ==
    /\ scene \in CullScenes
    /\ \E c \in {<<"FULL_LIGHTING", {}>>, <<"FULL_LIGHTING", {0}>>}, b \in BOOLEAN :
          impl = [InitialImpl EXCEPT !.lightingMode = c[1], !.shadowLightIndices = c[2],
                                     !.isCullFaceEnabled = b]
    /\ gl = InitialGL
    /\ heap = EmptyHeap
    /\ frame = NoFrame
    /\ tracked = EmptyHeap
    /\ InitExtensions /\ InitVertexArray /\ InitNormals /\ InitMesh /\ InitStartup /\ InitReader /\ InitKits

PickInCull == DoPickWith({{3, 4}}, {TRUE}, {[hi |-> 0, lo |-> 0]})

NextCull == DoRender \/ PickInCull \/ SetBackFaceCullingMode

SpecCull == InitCull /\ [][NextCull]_vars

-----------------------------------------------------------------------------
(* The update specification: the owner of the scene changes the cached      *)
(* objects between frames.                                                  *)

UpdateScenes ==
    {sc \in Scenes({"SgGroup"}, {"SgGroup"}, {"SgPointSet"}) :
        sc.kind[4] = "SgLineSet" /\ sc.transparent \subseteq {3}}

InitUpdate ==
    /\ InitIn(UpdateScenes, {<<"FULL_LIGHTING", {}>>, <<"FULL_LIGHTING", {0}>>})
    /\ InitExtensions /\ InitVertexArray /\ InitNormals /\ InitMesh /\ InitStartup /\ InitReader /\ InitKits

PickInUpdate == DoPickWith({{3, 4}}, {TRUE}, {[hi |-> 0, lo |-> 0]})

NextUpdate ==
    \/ DoRender
    \/ PickInUpdate
    \/ NotifyUpdate
    \/ EnableUnusedResourceCheck
    \/ RequestToClearResources

SpecUpdate == InitUpdate /\ [][NextUpdate]_vars

\* the scenes of the buffer specification: the shape has no texture, a texture that
\* loads or a texture that does not load
BufferScenes ==
    {[kind |-> <<"SgGroup", "SgGroup", "SgShape", "SgLineSet", "SgPointSet">>,
      transparent |-> {}, switchOn |-> TRUE, camera |-> TRUE, lights |-> Lights,
      headLight |-> DefaultHeadLight, solid |-> Leaves,
      geometry |-> [n \in Leaves |-> "ok"],
      image |-> [n \in Leaves |-> IF n = 3 THEN i ELSE NoTexture],
      imageSize |-> [n \in Leaves |-> DefaultSize]] :
        i \in {NoTexture} \cup ChannelCounts}

InitBuffers ==
    /\ InitIn(BufferScenes, {<<"FULL_LIGHTING", {}>>, <<"NO_LIGHTING", {}>>})
    /\ InitExtensions /\ InitVertexArray /\ InitNormals /\ InitMesh /\ InitStartup /\ InitReader /\ InitKits

NextBuffers ==
    \/ DoRender
    \/ PickInUpdate
    \/ NotifyUpdate
    \/ EnableUnusedResourceCheck
    \/ RequestToClearResources

SpecBuffers == InitBuffers /\ [][NextBuffers]_vars

-----------------------------------------------------------------------------
(* The reload specification: the image of a texture is replaced between     *)
(* frames by images of other sizes and channel counts.                      *)

InitReload ==
    /\ InitWith({sc \in TexScenes : /\ sc.image[3] \in ChannelCounts
                                     /\ \A n \in Leaves : sc.geometry[n] = "ok"})
    /\ InitExtensions /\ InitVertexArray /\ InitNormals /\ InitMesh /\ InitStartup /\ InitReader /\ InitKits

NextReload == DoRender \/ ReplaceImage

SpecReload == InitReload /\ [][NextReload]_vars

-----------------------------------------------------------------------------
(* The kinematics-kit specification: findKinematicsKit is called for the    *)
(* links of every body, the renderer at rest.                               *)

InitKinematics ==
    /\ IdleRenderer /\ InitExtensions /\ InitVertexArray /\ InitNormals /\ InitMesh
    /\ InitStartup /\ InitReader /\ InitKitsIn(Bodies)

NextKinematics == FindKinematicsKit

SpecKinematics == InitKinematics /\ [][NextKinematics]_vars

notKitVars ==
    <<rendererVars, extensionVars, vertexArrayVars, normalVars, meshVars, startupVars,
      readerVars>>

NextFrameEdit ==
    \/ StartFrameEditing /\ UNCHANGED notKitVars
    \/ PositionEditTargetExpired /\ UNCHANGED notKitVars
    \/ PositionChanged /\ UNCHANGED notKitVars
    \/ KinematicStateChanged /\ UNCHANGED notKitVars
    \/ PositionDragged /\ UNCHANGED notKitVars

SpecFrameEdit == InitAtRest /\ [][NextFrameEdit]_vars

notReaderVars ==
    <<rendererVars, extensionVars, vertexArrayVars, normalVars, meshVars, startupVars, kitVars>>

\* the steps the reader thread takes by itself: the pool runs the queued task, the
\* library keeps calling the hook while it waits and returns once rl_done is set
ReaderProgress ==
    readlineProc_begin \/ check_state \/ readline_done \/ readlineProc_loop

NextReadline ==
    \/ startThread /\ UNCHANGED notReaderVars
    \/ setTerminate /\ UNCHANGED notReaderVars
    \/ readlineProc_begin /\ UNCHANGED notReaderVars
    \/ check_state /\ UNCHANGED notReaderVars
    \/ readline_input /\ UNCHANGED notReaderVars
    \/ readline_done /\ UNCHANGED notReaderVars
    \/ readlineProc_loop /\ UNCHANGED notReaderVars

SpecReadline == InitAtRest /\ [][NextReadline]_vars

\* the reader thread is scheduled, and readline keeps invoking its event hook or
\* returning; the user need not enter anything
SpecReadlineLive == SpecReadline /\ WF_vars(ReaderProgress /\ UNCHANGED notReaderVars)

-----------------------------------------------------------------------------
(* Properties of the shadow-map passes and of the lights *)

\* the frame f entered a shadow-map pass or drew in one
HasShadowPass(f) ==
    \/ \E i \in 1..Len(f.phases) : f.phases[i].shadowMap
    \/ \E j \in 1..Len(f.draws) : f.draws[j].shadowMap
    \/ f.shadowTries # << >>

\* C22: a shadow-map pass runs only in a doRender frame under FULL_LIGHTING with
\* a non-empty shadow light set; isRenderingShadowMap is false when the main pass,
\* the post-rendering functions and the transparent pass are entered, at every draw
\* of these passes, and during the whole of a doPick frame
C22_ShadowPassesOnlyInFullLightingRender ==
    IsFrame(frame) =>
        /\ HasShadowPass(frame) =>
               /\ frame.op = "doRender"
               /\ impl.lightingMode = "FULL_LIGHTING"
               /\ impl.shadowLightIndices # {}
        /\ \A i \in 1..Len(frame.phases) :
               frame.phases[i].name \in {"main", "post", "transparent", "endRendering"} =>
                   ~frame.phases[i].shadowMap
        /\ \A j \in 1..Len(frame.draws) :
               frame.draws[j].phase \in {"main", "post", "transparent"} =>
                   ~frame.draws[j].shadowMap
        /\ ~impl.isRenderingShadowMap

\* a doRender frame that drew in a shadow-map pass, in the main pass and in the
\* transparent pass
C22_Witness ==
    /\ frame.op = "doRender"
    /\ \E j \in 1..Len(frame.draws) : frame.draws[j].shadowMap
    /\ \E j \in 1..Len(frame.draws) : frame.draws[j].phase = "main"
    /\ \E j \in 1..Len(frame.draws) : frame.draws[j].phase = "transparent"

\* the light of index i exists, is on and has a shadow camera
CastsShadow(i) ==
    /\ i \in 0..(Len(scene.lights) - 1)
    /\ scene.lights[i + 1].on
    /\ scene.lights[i + 1].shadowCamera

\* the maps generated by the first k shadow tries of the frame f
MapsGenerated(f, k) == Cardinality({i \in 1..k : f.shadowTries[i].generated})

\* C23: in a doRender frame under FULL_LIGHTING the lights of the shadow light set
\* are tried in ascending order of index without a gap; a try generates a map iff
\* the light exists, is on and has a shadow camera; a try takes the slot after the
\* maps generated so far; no light is tried once maxNumShadows maps were generated,
\* and every light is tried otherwise; and the main pass begins with numShadows
\* equal to the number of maps generated
C23_ShadowMapsInOrderUpToMax ==
    (frame.op = "doRender" /\ impl.lightingMode = "FULL_LIGHTING") =>
        /\ \A k \in 1..Len(frame.shadowTries) :
               /\ frame.shadowTries[k].light \in impl.shadowLightIndices
               /\ Cardinality({x \in impl.shadowLightIndices :
                                   x < frame.shadowTries[k].light}) = k - 1
               /\ frame.shadowTries[k].generated <=> CastsShadow(frame.shadowTries[k].light)
               /\ frame.shadowTries[k].slot = MapsGenerated(frame, k - 1)
               /\ MapsGenerated(frame, k - 1) < maxNumShadows
        /\ \/ Len(frame.shadowTries) = Cardinality(impl.shadowLightIndices)
           \/ MapsGenerated(frame, Len(frame.shadowTries)) = maxNumShadows
        /\ PhaseCount(frame, "shadowMap") = MapsGenerated(frame, Len(frame.shadowTries))
        /\ \A i \in 1..Len(frame.phases) :
               frame.phases[i].name = "main" =>
                   frame.phases[i].numShadows = MapsGenerated(frame, Len(frame.shadowTries))
        /\ impl.numShadows = MapsGenerated(frame, Len(frame.shadowTries))

\* a frame in which a light yielded no map, maxNumShadows maps were generated and a
\* light of the set was left untried
C23_Witness ==
    /\ frame.op = "doRender"
    /\ impl.lightingMode = "FULL_LIGHTING"
    /\ \E k \in 1..Len(frame.shadowTries) : ~frame.shadowTries[k].generated
    /\ MapsGenerated(frame, Len(frame.shadowTries)) = maxNumShadows
    /\ Len(frame.shadowTries) < Cardinality(impl.shadowLightIndices)

\* the scene light i is on and setLight accepts it
Registrable(i) == scene.lights[i + 1].on /\ scene.lights[i + 1].accepted

\* the registrable scene lights before the light i
RegistrableBefore(i) == Cardinality({x \in 0..(i - 1) : Registrable(x)})

\* C25: every call of renderLights fills at most maxNumLights slots, 0, 1, ... in
\* turn; the scene lights registered are the lights that are on and accepted, each
\* in the slot given by its rank among them, up to the cap; the head light is
\* registered, after them, iff it is on and accepted and a slot is left; and
\* setNumLights gets the number of slots filled
C25_LightsUpToMax ==
    \A c \in 1..Len(frame.lightCalls) :
        LET call == frame.lightCalls[c]
            sceneSlots == {x \in call.slots : x[2] # HeadLight}
        IN  /\ Cardinality(call.slots) <= maxNumLights
            /\ call.numLights = Cardinality(call.slots)
            /\ {x[1] : x \in call.slots} = 0..(call.numLights - 1)
            /\ \A x \in sceneSlots :
                   Registrable(x[2]) /\ x[1] = RegistrableBefore(x[2])
            /\ \A i \in 0..(Len(scene.lights) - 1) :
                   (Registrable(i) /\ RegistrableBefore(i) < maxNumLights) =>
                       <<RegistrableBefore(i), i>> \in call.slots
            /\ (\E x \in call.slots : x[2] = HeadLight) <=>
                   /\ scene.headLight.on
                   /\ scene.headLight.accepted
                   /\ Cardinality(sceneSlots) < maxNumLights
            /\ \A x \in call.slots : x[2] = HeadLight => x[1] = Cardinality(sceneSlots)

\* a call that skipped a scene light, reached the cap and left the head light, which
\* is on, out
C25_Witness ==
    \E c \in 1..Len(frame.lightCalls) :
        /\ frame.lightCalls[c].numLights = maxNumLights
        /\ scene.headLight.on /\ scene.headLight.accepted
        /\ \A x \in frame.lightCalls[c].slots : x[2] # HeadLight
        /\ \E x \in frame.lightCalls[c].slots : x[1] < x[2]

\* C27: a doRender or doPick call leaves the current program, the current lighting
\* program, the current no-lighting program and the program stack as it found them,
\* and its pushProgram and popProgram calls are equal in number
C27_ProgramStackBalanced ==
    [][IsFrame(frame') =>
           /\ impl'.currentProgram = impl.currentProgram
           /\ impl'.programStack = impl.programStack
           /\ Cardinality({j \in 1..Len(frame'.programCalls) :
                               frame'.programCalls[j].call = "pushProgram"})
                  = Cardinality({j \in 1..Len(frame'.programCalls) :
                                    frame'.programCalls[j].call = "popProgram"})]_vars

\* a doRender frame in which the handlers of two nested groups pushed a program
C27_Witness ==
    /\ frame.op = "doRender"
    /\ \E i, j \in 1..Len(frame.programCalls) :
           /\ frame.programCalls[i].call = "pushProgram"
           /\ frame.programCalls[j].call = "pushProgram"
           /\ frame.programCalls[i].node = 1
           /\ frame.programCalls[j].node = 2
    /\ \E j \in 1..Len(frame.draws) : frame.draws[j].kind = "SgPointSet"

-----------------------------------------------------------------------------
(* Properties of the GL state *)

\* C26: outside the shadow-map passes every shape is drawn with GL_CULL_FACE in the
\* state its culling mode and the solidity of its mesh ask for; and a call of
\* glEnable or glDisable(GL_CULL_FACE) is made while the state flag is set only if
\* the state asked for differs from the cached isCullFaceEnabled
C26_CullFaceAsRequired ==
    IsFrame(frame) =>
        /\ \A j \in 1..Len(frame.draws) :
               (frame.draws[j].kind = "SgShape" /\ ~frame.draws[j].shadowMap) =>
                   frame.draws[j].cullFace
                       = enableCullFace(frame.draws[j].mode, frame.draws[j].node \in scene.solid)
        /\ \A c \in 1..Len(frame.cullFaceCalls) :
               frame.cullFaceCalls[c].flag =>
                   /\ frame.cullFaceCalls[c].enable # frame.cullFaceCalls[c].cached
                   /\ frame.cullFaceCalls[c].enable
                          = enableCullFace(frame.cullFaceCalls[c].mode,
                                           frame.cullFaceCalls[c].node \in scene.solid)

\* a frame that drew a solid and a non-solid
\* shape outside the shadow-map passes and made a GL_CULL_FACE call with the flag set
C26_Witness ==
    /\ IsFrame(frame)
    /\ \E i, j \in 1..Len(frame.draws) :
           /\ frame.draws[i].kind = "SgShape" /\ frame.draws[j].kind = "SgShape"
           /\ ~frame.draws[i].shadowMap /\ ~frame.draws[j].shadowMap
           /\ frame.draws[i].node \in scene.solid
           /\ frame.draws[j].node \notin scene.solid
    /\ \E c \in 1..Len(frame.cullFaceCalls) : frame.cullFaceCalls[c].flag
    /\ \E c \in 1..Len(frame.cullFaceCalls) :
           ~frame.cullFaceCalls[c].flag /\ frame.cullFaceCalls[c].cached

-----------------------------------------------------------------------------
(* Properties of the validity of vertex resources *)

\* the calls i and j of the log are calls on the same resource
SameResource(calls, i, j) == calls[i].obj = calls[j].obj /\ calls[i].res = calls[j].res

\* C24: a change notification sets the vertex count of the living resources of the
\* object to 0 and leaves their buffers, every GPU handle and both maps as they
\* are; in a frame the buffers of a resource are deleted only by a validity check
\* that found the vertex count 0, a check that finds it 0 is followed by the
\* deletion or the encoding and one that finds it positive by neither, a buffer
\* handle goes only with such a deletion or with its resource, and a resource is
\* drawn only with a positive vertex count, right after its check or its encoding,
\* and after an encoding in the frame if it was invalid when the frame began
C24_UpdateInvalidatesUntilNextDraw ==
    [][/\ frame'.op = "sigUpdated" =>
              /\ gl'.handles = gl.handles
              /\ impl'.resourceMaps = impl.resourceMaps
              /\ \A o \in frame'.updated, g \in Generations :
                     <<o, g>> \in Referenced(impl.resourceMaps) =>
                         /\ impl'.vertexResources[o][g].numVertices = 0
                         /\ impl'.vertexResources[o][g].numBuffers
                                = impl.vertexResources[o][g].numBuffers
       /\ IsFrame(frame') =>
              /\ \A i \in 1..Len(frame'.resourceCalls) :
                     /\ frame'.resourceCalls[i].call = "deleteBuffers" =>
                            /\ i > 1
                            /\ frame'.resourceCalls[i - 1].call = "isValid"
                            /\ frame'.resourceCalls[i - 1].numVertices = 0
                            /\ SameResource(frame'.resourceCalls, i - 1, i)
                     /\ frame'.resourceCalls[i].call = "isValid" =>
                            /\ i < Len(frame'.resourceCalls)
                            /\ SameResource(frame'.resourceCalls, i, i + 1)
                            /\ frame'.resourceCalls[i + 1].call \in {"deleteBuffers", "write"}
                                   <=> frame'.resourceCalls[i].numVertices = 0
                     /\ frame'.resourceCalls[i].call = "draw" =>
                            /\ frame'.resourceCalls[i].numVertices > 0
                            /\ i > 1
                            /\ frame'.resourceCalls[i - 1].call \in {"isValid", "write"}
                            /\ SameResource(frame'.resourceCalls, i - 1, i)
                            /\ impl.vertexResources[frame'.resourceCalls[i].obj]
                                                    [frame'.resourceCalls[i].res].numVertices = 0 =>
                                   \E j \in 1..(i - 1) :
                                       /\ frame'.resourceCalls[j].call = "write"
                                       /\ SameResource(frame'.resourceCalls, j, i)
              /\ \A h \in gl.handles \ gl'.handles :
                     h.kind = "vbo" =>
                         \/ <<h.key, h.gen>> \in frame'.dropped
                         \/ \E i \in 1..Len(frame'.resourceCalls) :
                                /\ frame'.resourceCalls[i].call = "deleteBuffers"
                                /\ frame'.resourceCalls[i].obj = h.key
                                /\ frame'.resourceCalls[i].res = h.gen]_vars

\* a frame whose validity check found a resource with buffers and no vertex, deleted
\* the buffers, encoded the object again and drew it
C24_Witness ==
    /\ IsFrame(frame)
    /\ \E i \in 1..Len(frame.resourceCalls) :
           /\ i + 3 <= Len(frame.resourceCalls)
           /\ frame.resourceCalls[i].call = "isValid"
           /\ frame.resourceCalls[i].numVertices = 0
           /\ frame.resourceCalls[i].numBuffers > 0
           /\ frame.resourceCalls[i + 1].call = "deleteBuffers"
           /\ frame.resourceCalls[i + 2].call = "write"
           /\ frame.resourceCalls[i + 3].call = "draw"
           /\ frame.resourceCalls[i + 3].obj = frame.resourceCalls[i].obj

-----------------------------------------------------------------------------
(* Properties of the reload of textures *)

\* C28: a load into a resource that is loaded already reuses the storage iff the
\* width, the height and the channel count of the image equal those the resource
\* recorded at its previous load
C28_ReuseIffSameSizeAndChannels ==
    \A i \in 1..Len(frame.textureLoads) :
        frame.textureLoads[i].before.isLoaded =>
            (frame.textureLoads[i].reused <=>
                 /\ frame.textureLoads[i].before.width = frame.textureLoads[i].size[1]
                 /\ frame.textureLoads[i].before.height = frame.textureLoads[i].size[2]
                 /\ frame.textureLoads[i].before.numComponents
                        = frame.textureLoads[i].numComponents)

-----------------------------------------------------------------------------
(* Properties of LinkKinematicsKitManager *)

\* the last step was a call of findKinematicsKit for a link
IsFind(ks) == ks.call.op = "findKinematicsKit" /\ ks.call.target # NoLink

\* C29, as stated: a call creates a kit only when a preset IK is found for the link
\* and creates none for a link that has the kit of an earlier call; a call for a
\* link without preset IK and without such a kit returns null and leaves the map
\* unchanged; a call for a link for which a kit was created returns that kit; and
\* the kit returned is null or has the link as its link()
C29_KitPerLink ==
    [][IsFind(kits') =>
           /\ kits'.numKits > kits.numKits => findPresetIK(kits.body, kits'.call.target)
           /\ (/\ ~findPresetIK(kits.body, kits'.call.target)
               /\ kits.created[kits'.call.target] = NoKit) =>
                  /\ kits'.ret = NoKit
                  /\ kits'.linkIndexToKinematicsKitMap = kits.linkIndexToKinematicsKitMap
           /\ kits.created[kits'.call.target] # NoKit =>
                  kits'.ret = kits.created[kits'.call.target]
           /\ kits'.ret = NoKit \/ kits'.ret.link = kits'.call.target]_vars

\* C29, amended: as above, but a call for a link for which a kit was created returns
\* that kit as long as the map still has it, that is, unless a kit was created since
\* for another link of the same index; otherwise the call is one for a link without
\* kit
C29_KitPerLinkWhileMapped ==
    [][IsFind(kits') =>
           /\ kits'.numKits > kits.numKits => findPresetIK(kits.body, kits'.call.target)
           /\ (/\ ~findPresetIK(kits.body, kits'.call.target)
               /\ kits.created[kits'.call.target]
                      \notin {kits.linkIndexToKinematicsKitMap[i] : i \in LinkIndices} \ {NoKit}) =>
                  /\ kits'.ret = NoKit
                  /\ kits'.linkIndexToKinematicsKitMap = kits.linkIndexToKinematicsKitMap
           /\ (/\ kits.created[kits'.call.target] # NoKit
               /\ kits.linkIndexToKinematicsKitMap[index(kits'.call.target)]
                      = kits.created[kits'.call.target]) =>
                  /\ kits'.ret = kits.created[kits'.call.target]
                  /\ kits'.numKits = kits.numKits
                  /\ kits'.linkIndexToKinematicsKitMap = kits.linkIndexToKinematicsKitMap
           /\ kits'.ret = NoKit \/ kits'.ret.link = kits'.call.target]_vars

\* a call for a link returned the kit created for it by an earlier call, while
\* the kit created for the other link of that index is no longer in the map
C29_Witness ==
    /\ IsFind(kits)
    /\ kits.ret # NoKit
    /\ kits.ret = kits.created[kits.call.target]
    /\ kits.ret.id < kits.numKits
    /\ \E l \in Links :
           /\ l # kits.call.target
           /\ index(l) = index(kits.call.target)
           /\ kits.created[l] # NoKit

-----------------------------------------------------------------------------
(* Properties of the two generation maps between frames *)

\* C31: between the calls at most one of the two maps has an entry: the current map
\* is empty if hasValidNextResourceMap is true, and the next map is empty if it
\* is false
C31_OneMapBetweenFrames ==
    /\ impl.hasValidNextResourceMap => currentResourceMap(impl) = EmptyMap
    /\ ~impl.hasValidNextResourceMap => nextResourceMap(impl) = EmptyMap

\* a doPick frame that followed a checked doRender frame: the resources of that
\* frame are in the current map, which was the next map before
C31_Witness ==
    /\ frame.op = "doPick"
    /\ ~impl.hasValidNextResourceMap
    /\ currentResourceMap(impl) # EmptyMap
    /\ impl.currentResourceMapIndex = 1
    /\ frame.before.cached # {}


\* C32: a doPick frame that starts without a clear request destroys no resource and
\* releases no handle, keeps every resource the two maps referred to, and leaves
\* the map that is the next map during the frame as it was
C32_PickKeepsCache ==
    [][(frame'.op = "doPick" /\ ~impl.isResourceClearRequested) =>
           /\ Referenced(impl.resourceMaps) \subseteq Referenced(impl'.resourceMaps)
           /\ frame'.dropped = {}
           /\ gl.handles \subseteq gl'.handles
           /\ nextResourceMap(impl') = impl.resourceMaps[(1 - impl'.currentResourceMapIndex) + 1]
           /\ ~impl'.hasValidNextResourceMap]_vars

\* a doPick frame that did not look up an object that was cached, and is cached
C32_Witness ==
    /\ frame.op = "doPick"
    /\ ~frame.before.clearRequested
    /\ \E o \in frame.before.cached :
           o \notin LookedUp(frame.lookups) /\ o \in Cached(impl)
    /\ LookedUp(frame.lookups) # {}


-----------------------------------------------------------------------------
(* Properties of the application of extension functions *)

\* number of times func occurs in the sequence of applied functions
Applications(seq, func) == Cardinality({i \in 1..Len(seq) : seq[i] = func})

\* the call addExtension(func) has returned: func is registered and no thread is
\* in the call that added it
HasReturned(func) ==
    /\ func \in {extendFunctions[i] : i \in 1..Len(extendFunctions)}
    /\ \A t \in Threads : ExtThread(t).func # func

\* C33: an extension function is applied to a renderer at most once, by
\* applyExtensions in its construction or by applyNewExtensions in a later frame
C33_AppliedAtMostOnce ==
    \A r \in RendererIds : \A func \in 1..MaxExtensions :
        Applications(appliedFunctions[r], func) <= 1

\* C34: once a renderer is constructed and addExtension(func) has returned, func has
\* been applied to the renderer or is queued for its next doRender
C34_AppliedAtLeastOnce ==
    \A r \in RendererIds : \A func \in 1..MaxExtensions :
        (rendererLife[r] = "live" /\ HasReturned(func)) =>
            \/ Applications(appliedFunctions[r], func) >= 1
            \/ Applications(newExtendFunctions[r], func) >= 1


-----------------------------------------------------------------------------
(* Properties of the normal visualization *)

\* C35: when the normal visualization is enabled, every index given to normals.get
\* by the loop of writeMeshNormalsSub, one per corner of the mesh, is below the
\* number of normals that were appended
C35_NormalReadsInBounds ==
    (normalArray.called /\ normalArray.visualization # "none") =>
        \A vertexIndex \in 0..(3 * numTriangles(mesh) - 1) :
            vertexIndex < Len(normalArray.array)


-----------------------------------------------------------------------------
(* Properties of the model-matrix stack and of the pick path stack *)

\* the calls of pushPickId and popPickId pair up like brackets, and a popPickId
\* finds the model-matrix stack as deep as the matching pushPickId left it and the
\* path one node longer than that pushPickId found it (as long, outside picking);
\* `open` is the stack of the pushPickId calls not yet matched
RECURSIVE Paired(_, _)
Paired(calls, open) ==
    IF calls = << >> THEN open = << >>
    ELSE IF Head(calls).call = "pushPickId"
         THEN Paired(Tail(calls), <<Head(calls)>> \o open)
         ELSE /\ open # << >>
              /\ Head(calls).depth = Head(open).depth
              /\ Head(calls).pathLength =
                     Head(open).pathLength + (IF Head(calls).picking THEN 1 ELSE 0)
              /\ Paired(Tail(calls), Tail(open))

\* C36: in every frame the model-matrix stack is not empty at any node that is
\* rendered, pushes and pops on it and on the pick path are paired over every
\* traversal, the stack has depth 1 when the frame's traversals are done and
\* currentNodePath is empty when a picking pass has ended
C36_StacksBalanced ==
    frame.op \in {"doRender", "doPick"} =>
        /\ \A k \in 1..Len(frame.pickCalls) : frame.pickCalls[k].depth >= 1
        /\ Paired(frame.pickCalls, << >>)
        /\ frame.pickCalls # << >> => impl.modelMatrixStack = 1
        /\ frame.op = "doPick" => impl.currentNodePath = << >>

\* a doPick frame over two nested SgTransform nodes: a leaf was reached with three
\* matrices on the stack and two nodes on the path, and both are back at the end
C36_Witness ==
    /\ frame.op = "doPick"
    /\ Kind(1) = "SgTransform" /\ Kind(2) = "SgTransform"
    /\ \E k \in 1..Len(frame.pickCalls) :
           /\ frame.pickCalls[k].call = "pushPickId"
           /\ frame.pickCalls[k].depth = 3
           /\ frame.pickCalls[k].pathLength = 2
    /\ impl.modelMatrixStack = 1
    /\ impl.currentNodePath = << >>


-----------------------------------------------------------------------------
(* Properties of SgUnpickableGroup *)

ChildSet(n) == {Children(n)[i] : i \in 1..Len(Children(n))}

\* the nodes from the root down to n
RECURSIVE PathFromRoot(_)
PathFromRoot(n) ==
    IF n = Root THEN <<Root>>
    ELSE Append(PathFromRoot(CHOOSE p \in Nodes : n \in ChildSet(p)), n)

\* n is an SgUnpickableGroup or lies below one
UnderUnpickableGroup(n) ==
    \E i \in 1..Len(PathFromRoot(n)) : Kind(PathFromRoot(n)[i]) = "SgUnpickableGroup"

\* pushPickId was called for n in the frame
Pushed(f, n) ==
    \E j \in 1..Len(f.pickCalls) : IsPushPickId(f.pickCalls[j]) /\ f.pickCalls[j].node = n

\* C37: in a doPick frame no node that is an SgUnpickableGroup or lies below one
\* gets a pick ID or is drawn, and no recorded path holds an SgUnpickableGroup; in
\* a doRender frame an SgUnpickableGroup that is the root, or the child of a group
\* that was traversed, is traversed as a group and its leaves are drawn
C37_UnpickableGroupSkippedInPickOnly ==
    /\ frame.op = "doPick" =>
           /\ \A n \in Nodes :
                  UnderUnpickableGroup(n) => ~Pushed(frame, n) /\ ~Drawn(frame, n)
           /\ \A k \in 1..Len(impl.pickingNodePathList) :
                  \A i \in 1..Len(impl.pickingNodePathList[k]) :
                      Kind(impl.pickingNodePathList[k][i]) # "SgUnpickableGroup"
    /\ (frame.op = "doRender" /\ scene.camera) =>
           \A g \in Nodes :
               (/\ Kind(g) = "SgUnpickableGroup"
                /\ g = Root \/ \E p \in Nodes : g \in ChildSet(p) /\ Pushed(frame, p)) =>
                   /\ Pushed(frame, g)
                   /\ \A c \in ChildSet(g) \cap Leaves :
                          ~Skipped(c) => Pushed(frame, c) /\ Drawn(frame, c)

\* a doPick frame over a scene whose node 2 is an SgUnpickableGroup: its shapes got
\* no ID, and the leaf beside it got one
C37_Witness ==
    /\ frame.op = "doPick"
    /\ Kind(1) = "SgGroup" /\ Kind(2) = "SgUnpickableGroup"
    /\ Pushed(frame, 5) /\ Drawn(frame, 5)
    /\ ~Pushed(frame, 3)
    /\ impl.pickingNodePathList # << >>


-----------------------------------------------------------------------------
(* Properties of the buffers of a VertexResource *)

\* C40: numBuffers of every VertexResource is at most MAX_NUM_BUFFERS; an encoding
\* finds numBuffers at 0 and generates at most four buffers
C40_BuffersWithinArray ==
    /\ \A o \in Leaves, g \in Generations :
           impl.vertexResources[o][g].numBuffers \in 0..MAX_NUM_BUFFERS
    /\ IsFrame(frame) =>
           \A i \in 1..Len(frame.resourceCalls) :
               frame.resourceCalls[i].call = "write" =>
                   /\ frame.resourceCalls[i].generated \in 1..MAX_NUM_BUFFERS
                   /\ frame.resourceCalls[i].numBuffers = frame.resourceCalls[i].generated

\* a frame that encoded the textured shape again after an update: its validity
\* check found buffers, and the encoding generated four
C40_Witness ==
    /\ IsFrame(frame)
    /\ \E i \in 1..Len(frame.resourceCalls) :
           /\ i + 2 <= Len(frame.resourceCalls)
           /\ frame.resourceCalls[i].call = "isValid"
           /\ frame.resourceCalls[i].numBuffers > 0
           /\ frame.resourceCalls[i + 1].call = "deleteBuffers"
           /\ frame.resourceCalls[i + 2].call = "write"
           /\ frame.resourceCalls[i + 2].numBuffers = MAX_NUM_BUFFERS


-----------------------------------------------------------------------------
(* Properties of the console reader *)

\* C38: once setTerminate() has been called, after startThread(), the reader thread
\* eventually leaves the loop of readlineProc
C38_TerminateStopsReader ==
    [](reader.terminateCalled => <>(reader.pc = "finished"))


-----------------------------------------------------------------------------
(* Properties of frame editing *)

Logged(event) == \E i \in 1..Len(kits.frameEdit.log) : kits.frameEdit.log[i] = event

\* C39: a dragger event with a frame-edit target blocks the connections, writes the
\* position to the target, whose sigPositionChanged then calls no
\* onFrameEditPositionChanged, and unblocks them at its end; no connection is
\* blocked between two handlers; and without a target (none yet, or expired) a
\* dragger event reads and calls nothing and no connection is left
C39_DraggerWriteIsNotReentered ==
    /\ \A c \in kits.frameEdit.frameEditConnections : ~c.blocked
    /\ kits.frameEdit.frameEditTarget = NoTarget =>
           /\ kits.frameEdit.frameEditConnections = {}
           /\ kits.frameEdit.frameEditLink = NoLink
    /\ kits.frameEdit.op = "sigPositionDragged" =>
           IF kits.frameEdit.frameEditTarget = NoTarget
           THEN kits.frameEdit.log = << >>
           ELSE /\ kits.frameEdit.log[1] = "block"
                /\ kits.frameEdit.log[Len(kits.frameEdit.log)] = "unblock"
                /\ Logged("frameEditTarget->setPosition")
                /\ Logged("sigPositionChanged")
                /\ ~Logged("onFrameEditPositionChanged")
                /\ kits.frameEdit.positions[kits.frameEdit.frameEditTarget] =
                       kits.frameEdit.dragger - LinkFrame(kits.frameEdit.frameEditLink)

\* a dragger event wrote a position to the target of the link `foot`, and the
\* body item's signal was emitted during the write as well
C39_Witness ==
    /\ kits.frameEdit.op = "sigPositionDragged"
    /\ kits.frameEdit.frameEditTarget = 2
    /\ kits.frameEdit.frameEditLink = "foot"
    /\ Logged("sigKinematicStateChanged")
    /\ kits.frameEdit.positions[2] = -1

====
